---- MODULE Spec2Model ----
(***************************************************************************)
(* Plate equivalency matching and exposure calculation of the flexoplate   *)
(* backend: find_equivalent_plates and calculate_exposure (main.py),       *)
(* tool_find_equivalents (flexobrain_agent.py) and suggest_equivalencies   *)
(* (plate_data_importer.py), each modelled as one atomic request handler   *)
(* over the plates / suppliers tables.                                     *)
(*                                                                         *)
(* Further parts: the PDF data importer (plate_data_importer.py), the      *)
(* per-user favourites, equipment and recipes with their quotas and the    *)
(* reference cards (main.py), the news cache (news_aggregator.py) and the  *)
(* knowledge store (knowledge_scraper.py, knowledge_loader.py).  The add   *)
(* handlers of the quotas and the two news handlers are split at their     *)
(* awaits, so that requests interleave; every other handler is one step.   *)
(*                                                                         *)
(* Units.  thickness_mm is held in micrometres (1.14 mm = 1140),           *)
(* hardness_shore in half Shore A points (69 = 138).  The scores of the    *)
(* two float scorers are held in tenths of a point.  Text columns are      *)
(* sequences of one-character strings so that LOWER, strip and LIKE are    *)
(* computed, not assumed.                                                  *)
(***************************************************************************)
EXTENDS Integers, Sequences, FiniteSets, TLC

VARIABLES plates, suppliers, op, req, resp, locals

\* the plate_documents table of the data importer
VARIABLES plate_documents

\* users and what they keep: user_favorite_plates, user_equipment,
\* saved_recipes; calls holds the add requests in flight
VARIABLES users, user_favorite_plates, user_equipment, saved_recipes, calls

\* the reference_cards table
VARIABLES reference_cards

\* the news module's _news_cache, the wall clock in minutes, and the
\* requests that await fetch_all_feeds
VARIABLES news_cache, now, fetches

\* the knowledge base: knowledge_documents and knowledge_chunks
VARIABLES knowledge_documents, knowledge_chunks

importVars == <<plate_documents>>
accountVars == <<users, user_favorite_plates, user_equipment, saved_recipes, calls>>
cardVars == <<reference_cards>>
newsVars == <<news_cache, now, fetches>>
knowledgeVars == <<knowledge_documents, knowledge_chunks>>

\* everything but the catalog and the request being served
storeVars == <<importVars, accountVars, cardVars, newsVars, knowledgeVars>>

\* the catalog and the request being served
coreVars == <<plates, suppliers, op, req, resp, locals>>

vars == <<plates, suppliers, op, req, resp, locals, storeVars>>

-----------------------------------------------------------------------------
(* Bounds of the model *)

\* largest explicit limit= a request carries, besides -1, 0 and the default
MaxLimit == 2

-----------------------------------------------------------------------------
(* SQL NULL / Python None *)

NULL == 0 - 1
NullText == <<"NULL">>

\* Python truthiness of a numeric column value: None and 0 are falsy
Truthy(x) == x # NULL /\ x # 0

\* Python truthiness of a text value: None and '' are falsy
TruthyText(s) == s # NullText /\ s # <<>>

Abs(x) == IF x < 0 THEN 0 - x ELSE x
Min(a, b) == IF a <= b THEN a ELSE b
Max(a, b) == IF a >= b THEN a ELSE b

-----------------------------------------------------------------------------
(* Text: str.lower(), str.strip(), SQL LOWER and LIKE *)

LowerChar(c) ==
    CASE c = "A" -> "a"
      [] c = "B" -> "b"
      [] c = "F" -> "f"
      [] c = "R" -> "r"
      [] c = "D" -> "d"
      [] c = "T" -> "t"
      [] OTHER -> c

RECURSIVE Lower(_)
Lower(s) == IF s = <<>> THEN <<>> ELSE <<LowerChar(Head(s))>> \o Lower(Tail(s))

RECURSIVE LStrip(_)
LStrip(s) == IF s # <<>> /\ Head(s) = " " THEN LStrip(Tail(s)) ELSE s

RECURSIVE RStrip(_)
RStrip(s) ==
    IF s # <<>> /\ s[Len(s)] = " " THEN RStrip(SubSeq(s, 1, Len(s) - 1)) ELSE s

Strip(s) == RStrip(LStrip(s))

\* (x or '').lower().strip()
NormText(s) == IF s = NullText THEN <<>> ELSE Strip(Lower(s))

\* SQL  text LIKE pattern : % matches any run of characters, _ any one
RECURSIVE Like(_, _)
Like(text, pat) ==
    IF pat = <<>> THEN text = <<>>
    ELSE IF Head(pat) = "%"
         THEN Like(text, Tail(pat))
              \/ (text # <<>> /\ Like(Tail(text), pat))
    ELSE IF text = <<>> THEN FALSE
    ELSE (Head(pat) = "_" \/ Head(pat) = Head(text))
         /\ Like(Tail(text), Tail(pat))

\* LOWER(col) LIKE '%' || arg || '%' ; NULL col never matches
LowerLikeContains(col, arg) ==
    col # NullText /\ Like(Lower(col), <<"%">> \o arg \o <<"%">>)

\* plain substring test, what "name contains target" means
Contains(text, sub) ==
    \E i \in 1..(Len(text) - Len(sub) + 1) : SubSeq(text, i, i + Len(sub) - 1) = sub

-----------------------------------------------------------------------------
(* Plate ids on the wire: uuid.UUID(str) and str(uuid) *)

\* An id string is <<form, n>>: the canonical lower-case form that str(uuid)
\* prints, an upper-case / braced spelling of the same uuid, or a string
\* that is no uuid at all.
IdString(form, n) == <<form, n>>

\* uuid.UUID(s): ValueError for a malformed string, else the uuid
UuidParses(s) == s[1] \in {"canon", "upper"}
UuidOf(s) == s[2]

\* str(row['id'])
UuidStr(n) == IdString("canon", n)

-----------------------------------------------------------------------------
(* Program constants *)

\* "ABS(p.thickness_mm - $n) < 0.15", in micrometres
ThicknessFilter == 150
\* "s['match_score'] >= 50"
GoodMatchThreshold == 50
\* "limit: int = 20"
DefaultLimit == 20

-----------------------------------------------------------------------------
(* Sequences *)

\* every ordering of a finite set, as sequences without repetition
RECURSIVE Orderings(_)
Orderings(S) ==
    IF S = {} THEN {<<>>}
    ELSE UNION {{<<x>> \o t : t \in Orderings(S \ {x})} : x \in S}

\* a slice that keeps one element too many:  s[:n + 1]
SliceToInclusive(s, n) ==
    IF n + 1 >= 0 THEN SubSeq(s, 1, Min(n + 1, Len(s)))
    ELSE SubSeq(s, 1, Max(0, Len(s) + n + 1))

\* Python  s[:n]  for any integer n
SliceTo(s, n) ==
    IF n >= 0 THEN SubSeq(s, 1, Min(n, Len(s)))
    ELSE SubSeq(s, 1, Max(0, Len(s) + n))

\* insert e into the descending list s behind every element whose
\* match_score is greater than or equal to its own
InsertBehindEqual(s, e) ==
    LET k == Cardinality({i \in 1..Len(s) : s[i].match_score >= e.match_score})
    IN SubSeq(s, 1, k) \o <<e>> \o SubSeq(s, k + 1, Len(s))

\* the same, but in front of the elements with an equal match_score
InsertBeforeEqual(s, e) ==
    LET k == Cardinality({i \in 1..Len(s) : s[i].match_score > e.match_score})
    IN SubSeq(s, 1, k) \o <<e>> \o SubSeq(s, k + 1, Len(s))

\* a descending sort that reverses the order of equal scores
RECURSIVE UnstableSortFrom(_, _)
UnstableSortFrom(done, rest) ==
    IF rest = <<>> THEN done
    ELSE UnstableSortFrom(InsertBeforeEqual(done, Head(rest)), Tail(rest))

UnstableSortByMatchScore(s) == UnstableSortFrom(<<>>, s)

RECURSIVE SortFrom(_, _)
SortFrom(done, rest) ==
    IF rest = <<>> THEN done
    ELSE SortFrom(InsertBehindEqual(done, Head(rest)), Tail(rest))

\* scored.sort(key=lambda x: x['match_score'], reverse=True):
\* descending, and entries with equal scores keep their order
SortByMatchScore(s) == SortFrom(<<>>, s)

-----------------------------------------------------------------------------
(* find_equivalent_plates: the scoring loop body *)

Note(msg) == [msg |-> msg, a |-> <<>>, b |-> <<>>]
Note2(msg, a, b) == [msg |-> msg, a |-> a, b |-> b]

\* "diff <= thr" on the float  abs(float(x) - float(y)) : when the decimal
\* difference is exactly the threshold, the binary result lies either side
\* of it (1.14 - 1.12 <= 0.02 is True, 1.70 - 1.68 <= 0.02 is False)
FloatLE(d, thr, up) == d < thr \/ (d = thr /\ ~up)

\* the same bands with 35 points for the "close" band
ThicknessPartClose35(source, cand, up) ==
    IF Truthy(source.thickness_mm) /\ Truthy(cand.thickness_mm)
    THEN LET diff == Abs(source.thickness_mm - cand.thickness_mm)
         IN IF FloatLE(diff, 20, up)
                THEN [score |-> 30, notes |-> <<Note("thickness: exact")>>]
            ELSE IF FloatLE(diff, 50, up)
                THEN [score |-> 35, notes |-> <<Note("thickness: close")>>]
            ELSE IF FloatLE(diff, 100, up)
                THEN [score |-> 15, notes |-> <<Note("thickness: acceptable")>>]
            ELSE [score |-> 5, notes |-> <<Note("thickness: different")>>]
    ELSE [score |-> 0, notes |-> <<>>]

ThicknessPart(source, cand, up) ==
    IF Truthy(source.thickness_mm) /\ Truthy(cand.thickness_mm)
    THEN LET diff == Abs(source.thickness_mm - cand.thickness_mm)
         IN IF FloatLE(diff, 20, up)
                THEN [score |-> 30, notes |-> <<Note("thickness: exact")>>]
            ELSE IF FloatLE(diff, 50, up)
                THEN [score |-> 25, notes |-> <<Note("thickness: close")>>]
            ELSE IF FloatLE(diff, 100, up)
                THEN [score |-> 15, notes |-> <<Note("thickness: acceptable")>>]
            ELSE [score |-> 5, notes |-> <<Note("thickness: different")>>]
    ELSE [score |-> 0, notes |-> <<>>]

HardnessPart(source, cand) ==
    IF Truthy(source.hardness_shore) /\ Truthy(cand.hardness_shore)
    THEN LET diff == Abs(source.hardness_shore - cand.hardness_shore)
         IN IF diff <= 2
                THEN [score |-> 25, notes |-> <<Note("hardness: exact")>>]
            ELSE IF diff <= 6
                THEN [score |-> 20, notes |-> <<Note("hardness: close")>>]
            ELSE IF diff <= 10
                THEN [score |-> 12, notes |-> <<Note("hardness: acceptable")>>]
            ELSE IF diff <= 16
                THEN [score |-> 5, notes |-> <<Note("hardness: different")>>]
            ELSE [score |-> 0, notes |-> <<Note("hardness: mismatch")>>]
    ELSE [score |-> 10, notes |-> <<Note("hardness: unknown")>>]

SurfacePart(source, cand) ==
    LET source_surface == NormText(source.surface_type)
        cand_surface == NormText(cand.surface_type)
    IN IF source_surface # <<>> /\ cand_surface # <<>>
       THEN IF source_surface = cand_surface
            THEN [score |-> 25, notes |-> <<Note("surface: match")>>]
            ELSE [score |-> 0 - 10,
                  notes |-> <<Note2("surface: MISMATCH", source_surface, cand_surface)>>]
       ELSE [score |-> 10, notes |-> <<Note("surface: unknown")>>]

\* the imaging part with the unknown credit subtracted instead of added
ImagingPartUnknownPenalty(source, cand) ==
    LET source_imaging == NormText(source.imaging_type)
        cand_imaging == NormText(cand.imaging_type)
    IN IF source_imaging # <<>> /\ cand_imaging # <<>>
       THEN IF source_imaging = cand_imaging
            THEN [score |-> 20, notes |-> <<Note("imaging: match")>>]
            ELSE [score |-> 0 - 5, notes |-> <<Note("imaging: MISMATCH")>>]
       ELSE [score |-> 0 - 8, notes |-> <<Note("imaging: unknown")>>]

ImagingPart(source, cand) ==
    LET source_imaging == NormText(source.imaging_type)
        cand_imaging == NormText(cand.imaging_type)
    IN IF source_imaging # <<>> /\ cand_imaging # <<>>
       THEN IF source_imaging = cand_imaging
            THEN [score |-> 20, notes |-> <<Note("imaging: match")>>]
            ELSE [score |-> 0 - 5, notes |-> <<Note("imaging: MISMATCH")>>]
       ELSE [score |-> 8, notes |-> <<Note("imaging: unknown")>>]

\* score before clamping, and match_details
RawScore(source, cand, up) ==
    LET t == ThicknessPart(source, cand, up)
        h == HardnessPart(source, cand)
        s == SurfacePart(source, cand)
        i == ImagingPart(source, cand)
    IN [score |-> t.score + h.score + s.score + i.score,
        notes |-> t.notes \o h.notes \o s.notes \o i.notes]

\* final_score = score without the lower clamp
ClampHigh(score) == Min(100, score)

\* final_score = max(0, min(100, score))
Clamp(score) == Max(0, Min(100, score))

Quality(final_score) ==
    IF final_score >= 90 THEN "Excellent"
    ELSE IF final_score >= 75 THEN "Good"
    ELSE IF final_score >= 60 THEN "Fair"
    ELSE "Poor"

\* float(x) if x else None
FloatOrNone(x) == IF Truthy(x) THEN x ELSE NULL

\* the dict appended to scored for candidate row c
ScoredEntry(source, c, up) ==
    LET cand == plates[c]
        raw == RawScore(source, cand, up)
        final_score == Clamp(raw.score)
    IN [id |-> UuidStr(c),
        supplier_name |-> suppliers[cand.supplier_id],
        thickness_mm |-> FloatOrNone(cand.thickness_mm),
        hardness_shore |-> FloatOrNone(cand.hardness_shore),
        imaging_type |-> cand.imaging_type,
        surface_type |-> cand.surface_type,
        match_score |-> final_score,
        similarity_score |-> final_score,
        match_quality |-> Quality(final_score),
        match_details |-> raw.notes]

\* [s for s in scored if s['match_score'] >= 1]
RECURSIVE PositiveMatches(_)
PositiveMatches(scored) ==
    IF scored = <<>> THEN <<>>
    ELSE (IF Head(scored).match_score >= 1 THEN <<Head(scored)>> ELSE <<>>)
             \o PositiveMatches(Tail(scored))

\* good_matches = [s for s in scored if s['match_score'] >= 50]
RECURSIVE GoodMatches(_)
GoodMatches(scored) ==
    IF scored = <<>> THEN <<>>
    ELSE (IF Head(scored).match_score >= GoodMatchThreshold
          THEN <<Head(scored)>> ELSE <<>>)
             \o GoodMatches(Tail(scored))

-----------------------------------------------------------------------------
(* find_equivalent_plates: the candidate query *)

\* the candidate query without its thickness condition
PoolRowAnyThickness(sid, c, target_supplier, exclude_same_supplier) ==
    LET source == plates[sid]
        p == plates[c]
    IN /\ c # sid
       /\ p.is_active
       /\ (exclude_same_supplier /\ source.supplier_id # NULL) =>
              p.supplier_id # source.supplier_id
       /\ TruthyText(target_supplier) =>
              LowerLikeContains(suppliers[p.supplier_id], Lower(target_supplier))

\* the WHERE clause built for the candidates of source plate sid
PoolRow(sid, c, target_supplier, exclude_same_supplier) ==
    LET source == plates[sid]
        p == plates[c]
    IN /\ c # sid
       /\ p.is_active
       /\ Truthy(source.thickness_mm) =>
              /\ p.thickness_mm # NULL
              /\ Abs(p.thickness_mm - source.thickness_mm) < ThicknessFilter
       /\ (exclude_same_supplier /\ source.supplier_id # NULL) =>
              p.supplier_id # source.supplier_id
       /\ TruthyText(target_supplier) =>
              LowerLikeContains(suppliers[p.supplier_id], Lower(target_supplier))

Pool(sid, target_supplier, exclude_same_supplier) ==
    {c \in DOMAIN plates : PoolRow(sid, c, target_supplier, exclude_same_supplier)}

\* candidate rows whose thickness difference sits exactly on a band edge
OnBandEdge(sid, rows) ==
    {c \in rows : /\ Truthy(plates[sid].thickness_mm)
                  /\ Truthy(plates[c].thickness_mm)
                  /\ Abs(plates[sid].thickness_mm - plates[c].thickness_mm)
                        \in {20, 50, 100}}

\* the scoring loop: one entry per candidate row, in arrival order
RECURSIVE ScoredList(_, _, _)
ScoredList(source, candidates, ups) ==
    IF candidates = <<>> THEN <<>>
    ELSE <<ScoredEntry(source, Head(candidates), Head(candidates) \in ups)>>
             \o ScoredList(source, Tail(candidates), ups)

\* the body returned with status 200
FindBody(sid, scored, limit) ==
    LET source == plates[sid]
        sorted == SortByMatchScore(scored)
        good_matches == GoodMatches(sorted)
    IN [status |-> 200,
        source_plate |-> [id |-> UuidStr(sid),
                          supplier_name |-> suppliers[source.supplier_id],
                          thickness_mm |-> FloatOrNone(source.thickness_mm),
                          hardness_shore |-> FloatOrNone(source.hardness_shore),
                          imaging_type |-> source.imaging_type,
                          surface_type |-> source.surface_type],
        equivalents |-> SliceTo(good_matches, limit),
        total_candidates |-> Len(scored),
        good_matches_count |-> Len(good_matches)]

\* a response that carries no body: an HTTPException or an unhandled error
ErrorResponse(status) ==
    [status |-> status, source_plate |-> <<>>, equivalents |-> <<>>,
     total_candidates |-> NULL, good_matches_count |-> NULL]

\* the handler's local variables when it returns: the source plate it
\* resolved, the candidate rows in arrival order, the scored list
NoLocals == [source |-> NULL, candidates |-> <<>>, scored |-> <<>>]

-----------------------------------------------------------------------------
(* find_equivalent_plates: the handler *)

\* GET /api/equivalency/find.  candidates is the order in which the rows
\* arrive (the query has no ORDER BY), ups the rows whose float
\* difference falls above its band edge.
FindEquivalentPlatesResult(plate_id, target_supplier, exclude_same_supplier, limit, candidates, ups) ==
    IF ~UuidParses(plate_id)
    THEN [resp |-> ErrorResponse(500), locals |-> NoLocals]
    ELSE IF UuidOf(plate_id) \notin DOMAIN plates
    THEN [resp |-> ErrorResponse(404), locals |-> NoLocals]
    ELSE LET sid == UuidOf(plate_id)
             scored == ScoredList(plates[sid], candidates, ups)
         IN [resp |-> FindBody(sid, scored, limit),
             locals |-> [source |-> sid, candidates |-> candidates,
                         scored |-> scored]]

\* the orders in which the candidate rows of a request can arrive
CandidateOrders(plate_id, target_supplier, exclude_same_supplier) ==
    IF UuidParses(plate_id) /\ UuidOf(plate_id) \in DOMAIN plates
    THEN Orderings(Pool(UuidOf(plate_id), target_supplier, exclude_same_supplier))
    ELSE {<<>>}

FindRequest(plate_id, target_supplier, exclude_same_supplier, limit) ==
    [plate_id |-> plate_id, target_supplier |-> target_supplier,
     exclude_same_supplier |-> exclude_same_supplier, limit |-> limit]

-----------------------------------------------------------------------------
(* tool_find_equivalents and suggest_equivalencies: shared pieces *)

\* "LIMIT 10" of both candidate queries
RowLimit == 10

\* round(x) of a non-negative x held in tenths: to the nearest integer, a
\* half to the even neighbour
RoundTenths(x) ==
    LET q == x \div 10
        r == x % 10
    IN IF r < 5 THEN q
       ELSE IF r > 5 THEN q + 1
       ELSE IF q % 2 = 0 THEN q ELSE q + 1

\* round(x) that always rounds a half up
RoundHalfUpTenths(x) == (x + 5) \div 10

\* ABS(a - b) in SQL: NULL when either side is NULL
SqlAbsDiff(a, b) == IF a = NULL \/ b = NULL THEN NULL ELSE Abs(a - b)

\* sort position of a NULL under ORDER BY ... ASC (NULLS LAST)
NullsLast(x) == IF x = NULL THEN 1000000 ELSE x

\* the orderings of rows that "ORDER BY k1, k2" allows, rows with equal
\* keys in any order; K1 and K2 are functions over the rows
OrderedBy(rows, K1, K2) ==
    {o \in Orderings(rows) :
        \A i, j \in DOMAIN o :
            i < j => \/ K1[o[i]] < K1[o[j]]
                     \/ (K1[o[i]] = K1[o[j]] /\ K2[o[i]] <= K2[o[j]])}

\* insert e behind every element whose similarity_score is >= its own
InsertBySimilarity(s, e) ==
    LET k == Cardinality({i \in 1..Len(s) :
                             s[i].similarity_score >= e.similarity_score})
    IN SubSeq(s, 1, k) \o <<e>> \o SubSeq(s, k + 1, Len(s))

RECURSIVE SortSimilarityFrom(_, _)
SortSimilarityFrom(done, rest) ==
    IF rest = <<>> THEN done
    ELSE SortSimilarityFrom(InsertBySimilarity(done, Head(rest)), Tail(rest))

\* sorted(xs, key=lambda x: x['similarity_score'], reverse=True)
SortBySimilarityScore(s) == SortSimilarityFrom(<<>>, s)

\* the plates a "LOWER(display_name) LIKE LOWER($1) OR LOWER(sku_code) LIKE
\* LOWER($1)" lookup with $1 = %plate_name% can return under LIMIT 1
NameMatches(plate_name) ==
    {c \in DOMAIN plates :
        \/ LowerLikeContains(plates[c].display_name, Lower(plate_name))
        \/ LowerLikeContains(plates[c].sku_code, Lower(plate_name))}

\* float + Decimal raises TypeError: a float partial score (a positive
\* max(0, float)) added to a Decimal one (a positive max(0, Decimal))
MixedTypes(decimal, float_part, decimal_part) ==
    decimal /\ float_part > 0 /\ decimal_part > 0

-----------------------------------------------------------------------------
(* tool_find_equivalents *)

\* the candidate rows of source sid
ToolRow(sid, c, target_supplier) ==
    /\ c # sid
    /\ SqlAbsDiff(plates[c].thickness_mm, plates[sid].thickness_mm) # NULL
    /\ SqlAbsDiff(plates[c].thickness_mm, plates[sid].thickness_mm) <= 150
    /\ TruthyText(target_supplier) =>
           LowerLikeContains(suppliers[plates[c].supplier_id], Lower(target_supplier))

ToolRows(sid, target_supplier) ==
    {c \in DOMAIN plates : ToolRow(sid, c, target_supplier)}

ToolRowOrders(sid, target_supplier) ==
    LET rows == ToolRows(sid, target_supplier)
        K1 == [c \in rows |->
                  SqlAbsDiff(plates[c].thickness_mm, plates[sid].thickness_mm)]
        K2 == [c \in rows |->
                  NullsLast(SqlAbsDiff(plates[c].hardness_shore,
                                       plates[sid].hardness_shore))]
    IN {SubSeq(o, 1, Min(RowLimit, Len(o))) : o \in OrderedBy(rows, K1, K2)}

\* the partial scores of one row, in tenths of a point
ToolThicknessScore(thickness_diff) == Max(0, 300 - 2 * thickness_diff)
ToolHardnessScore(hardness_diff) == Max(0, 250 - 10 * hardness_diff)
ToolSurfaceScore(source, row) ==
    IF row.surface_type = source.surface_type THEN 200 ELSE 50
ToolProcessScore(source, row) ==
    IF row.process_type = source.process_type THEN 150 ELSE 0

\* total_score of one row, in tenths; hardness_diff is not NULL
ToolTotalScore(source, row) ==
    Min(1000, ToolThicknessScore(Abs(row.thickness_mm - source.thickness_mm))
                + ToolHardnessScore(Abs(row.hardness_shore - source.hardness_shore))
                + ToolSurfaceScore(source, row)
                + ToolProcessScore(source, row)
                + 100)

ToolQuality(total_score) ==
    IF total_score >= 900 THEN "Excellent"
    ELSE IF total_score >= 750 THEN "Good"
    ELSE IF total_score >= 600 THEN "Fair"
    ELSE "Poor"

ToolEntry(source, c) ==
    LET row == plates[c]
        total_score == ToolTotalScore(source, row)
    IN [id |-> UuidStr(c),
        supplier |-> suppliers[row.supplier_id],
        thickness_mm |-> row.thickness_mm,
        hardness_shore |-> row.hardness_shore,
        surface_type |-> row.surface_type,
        process_type |-> row.process_type,
        similarity_score |-> RoundTenths(total_score),
        match_quality |-> ToolQuality(total_score)]

RECURSIVE ToolEntries(_, _)
ToolEntries(source, rows) ==
    IF rows = <<>> THEN <<>>
    ELSE <<ToolEntry(source, Head(rows))>> \o ToolEntries(source, Tail(rows))

\* the loop raises TypeError on a row: hardness_diff is None, or a float
\* partial score meets a Decimal one
ToolRowRaises(source, c, decimal) ==
    \/ SqlAbsDiff(plates[c].hardness_shore, source.hardness_shore) = NULL
    \/ MixedTypes(decimal,
                  ToolThicknessScore(Abs(plates[c].thickness_mm - source.thickness_mm)),
                  ToolHardnessScore(Abs(plates[c].hardness_shore - source.hardness_shore)))

ToolError == [error |-> TRUE, equivalents |-> <<>>]

\* the tool's result for source sid (None when no plate matched) and the
\* rows in the order they arrived; decimal: the driver returns NUMERIC
\* columns as Decimal
ToolFindEquivalentsResult(sid, rows, decimal) ==
    IF sid = NULL THEN ToolError
    ELSE IF \E i \in DOMAIN rows : ToolRowRaises(plates[sid], rows[i], decimal)
    THEN ToolError
    ELSE IF plates[sid].thickness_mm = NULL THEN ToolError
    ELSE [error |-> FALSE,
          source_plate |-> [thickness_mm |-> plates[sid].thickness_mm,
                            hardness_shore |-> plates[sid].hardness_shore,
                            surface_type |-> plates[sid].surface_type,
                            process_type |-> plates[sid].process_type],
          equivalents |-> SortBySimilarityScore(ToolEntries(plates[sid], rows))]

-----------------------------------------------------------------------------
(* suggest_equivalencies *)

\* ABS(COALESCE(p.hardness_shore, 0) - COALESCE($2, 0))
CoalescedHardnessDiff(a, b) ==
    Abs((IF a = NULL THEN 0 ELSE a) - (IF b = NULL THEN 0 ELSE b))

SuggestRow(sid, c) ==
    /\ c # sid
    /\ plates[c].supplier_id # plates[sid].supplier_id
    /\ SqlAbsDiff(plates[c].thickness_mm, plates[sid].thickness_mm) # NULL
    /\ SqlAbsDiff(plates[c].thickness_mm, plates[sid].thickness_mm) < 150
    /\ plates[c].is_active

SuggestRows(sid) == {c \in DOMAIN plates : SuggestRow(sid, c)}

SuggestRowOrders(sid) ==
    LET rows == SuggestRows(sid)
        K1 == [c \in rows |->
                  SqlAbsDiff(plates[c].thickness_mm, plates[sid].thickness_mm)]
        K2 == [c \in rows |->
                  CoalescedHardnessDiff(plates[c].hardness_shore,
                                        plates[sid].hardness_shore)]
    IN {SubSeq(o, 1, Min(RowLimit, Len(o))) : o \in OrderedBy(rows, K1, K2)}

\* the partial scores of one row, in tenths of a point
SuggestThicknessScore(thickness_diff) == Max(0, 400 - 3 * thickness_diff)
SuggestHardnessScore(hardness_diff) ==
    IF hardness_diff # 0 THEN Max(0, 250 - 10 * hardness_diff) ELSE 150
SuggestProcessScore(plate, row) ==
    IF row.process_type = plate.process_type THEN 200 ELSE 0
SuggestSurfaceScore(plate, row) ==
    IF row.surface_type = plate.surface_type THEN 100 ELSE 0

\* score of one row, in tenths
SuggestScore(plate, row) ==
    Min(1000, SuggestThicknessScore(Abs(row.thickness_mm - plate.thickness_mm))
                + SuggestHardnessScore(CoalescedHardnessDiff(row.hardness_shore,
                                                             plate.hardness_shore))
                + SuggestProcessScore(plate, row)
                + SuggestSurfaceScore(plate, row)
                + 50)

SuggestConfidence(score) ==
    IF score >= 850 THEN "high" ELSE IF score >= 700 THEN "medium" ELSE "low"

SuggestEntry(plate, c) ==
    LET row == plates[c]
        score == SuggestScore(plate, row)
    IN [id |-> UuidStr(c),
        supplier |-> suppliers[row.supplier_id],
        thickness_mm |-> row.thickness_mm,
        hardness_shore |-> row.hardness_shore,
        process_type |-> row.process_type,
        similarity_score |-> RoundTenths(score),
        confidence |-> SuggestConfidence(score)]

RECURSIVE SuggestEntries(_, _)
SuggestEntries(plate, rows) ==
    IF rows = <<>> THEN <<>>
    ELSE <<SuggestEntry(plate, Head(rows))>> \o SuggestEntries(plate, Tail(rows))

\* the loop raises TypeError on a row: a float thickness_score meets a
\* Decimal hardness_score (the literal 15 of the else branch is an int)
SuggestRowRaises(plate, c, decimal) ==
    LET hardness_diff == CoalescedHardnessDiff(plates[c].hardness_shore,
                                               plate.hardness_shore)
    IN /\ hardness_diff # 0
       /\ MixedTypes(decimal,
                     SuggestThicknessScore(Abs(plates[c].thickness_mm
                                                 - plate.thickness_mm)),
                     SuggestHardnessScore(hardness_diff))

\* the list returned for plate sid (NULL: the id matches no plate), or the
\* exception that leaves the function
SuggestEquivalenciesResult(sid, rows, decimal) ==
    IF sid = NULL THEN [raised |-> FALSE, equivalents |-> <<>>]
    ELSE IF \E i \in DOMAIN rows : SuggestRowRaises(plates[sid], rows[i], decimal)
    THEN [raised |-> TRUE, equivalents |-> <<>>]
    ELSE [raised |-> FALSE,
          equivalents |-> SortBySimilarityScore(SuggestEntries(plates[sid], rows))]

-----------------------------------------------------------------------------
(* calculate_exposure *)

\* int(a / b) for b # 0: the quotient truncated toward zero
TruncDiv(a, b) ==
    IF (a >= 0) = (b > 0) THEN Abs(a) \div Abs(b) ELSE 0 - (Abs(a) \div Abs(b))

\* plate.get(col) or default
OrDefault(x, default) == IF Truthy(x) THEN x ELSE default

\* POST /api/exposure/calculate; the intensity is in mW/cm2
CalculateExposureResult(plate_id, current_intensity_mw_cm2) ==
    IF ~UuidParses(plate_id) THEN [status |-> 500]
    ELSE IF UuidOf(plate_id) \notin DOMAIN plates THEN [status |-> 404]
    ELSE IF current_intensity_mw_cm2 = 0 THEN [status |-> 500]
    ELSE LET plate == plates[UuidOf(plate_id)]
             main_energy_min == OrDefault(plate.main_exposure_energy_min_mj_cm2, 800)
             main_energy_max == OrDefault(plate.main_exposure_energy_max_mj_cm2, 1200)
             back_energy_min == OrDefault(plate.back_exposure_energy_min_mj_cm2, 150)
             back_energy_max == OrDefault(plate.back_exposure_energy_max_mj_cm2, 250)
             \* int(((min + max) / 2) / intensity)
             main_time_s == TruncDiv(main_energy_min + main_energy_max,
                                     2 * current_intensity_mw_cm2)
             back_time_s == TruncDiv(back_energy_min + back_energy_max,
                                     2 * current_intensity_mw_cm2)
             main_clamped == Max(30, Min(main_time_s, 1800))
             back_clamped == Max(10, Min(back_time_s, 600))
         IN [status |-> 200,
             plate |-> [id |-> UuidStr(UuidOf(plate_id)),
                        thickness_mm |-> FloatOrNone(plate.thickness_mm)],
             input |-> [intensity_mw_cm2 |-> current_intensity_mw_cm2],
             exposure |-> [main_exposure_time_s |-> main_clamped,
                           back_exposure_time_s |-> back_clamped,
                           main_exposure_formatted |->
                               <<main_clamped \div 60, main_clamped % 60>>,
                           back_exposure_formatted |->
                               <<back_clamped \div 60, back_clamped % 60>>]]

-----------------------------------------------------------------------------
(* tool_calculate_exposure *)

\* floor(n / d) and the rounding of the quotient n / d to an integer, for
\* d # 0; tie says how an exact half goes: "even" as round() does on an
\* exactly computed float, "up" or "down" where the float that reaches
\* round() carries the error of an inexact operand
FloorRatio(n, d) == IF d > 0 THEN n \div d ELSE (0 - n) \div (0 - d)

RoundRatio(n, d, tie) ==
    LET nn == IF d > 0 THEN n ELSE 0 - n
        dd == IF d > 0 THEN d ELSE 0 - d
        q == nn \div dd
        r == nn - q * dd
    IN IF 2 * r < dd THEN q
       ELSE IF 2 * r > dd THEN q + 1
       ELSE IF tie = "up" THEN q + 1
       ELSE IF tie = "down" THEN q
       ELSE IF q % 2 = 0 THEN q ELSE q + 1

\* degradation_factor in ten-thousandths; lamp_age in hours
FactorScale == 10000

\* a clamp that lets the factor fall to zero
DegradationFactorUnclamped(lamp_age) ==
    IF lamp_age > 0 THEN Max(0, FactorScale - lamp_age) ELSE FactorScale

\* degradation_factor = max(0.5, 1.0 - (lamp_age / 10000)) if lamp_age > 0
DegradationFactor(lamp_age) ==
    IF lamp_age > 0 THEN Max(5000, FactorScale - lamp_age) ELSE FactorScale

\* 1.0 - lamp_age / 10000 is computed without rounding error
ExactFactor(factor) == factor \in {5000, FactorScale}

\* Decimal / float raises TypeError: target_energy is a Decimal as soon as
\* one of the two energies comes from a NUMERIC column
ToolExposureRaises(row, intensity, decimal) ==
    \/ intensity = 0
    \/ /\ decimal
       /\ \/ Truthy(row.main_exposure_energy_min_mj_cm2)
          \/ Truthy(row.main_exposure_energy_max_mj_cm2)

ToolExposureError == [error |-> TRUE]

\* "m:ss" of a time n / d seconds: int(seconds // 60), int(seconds % 60)
FormatTime(n, d) ==
    LET mins == FloorRatio(n, 60 * d)
    IN <<mins, FloorRatio(n - 60 * mins * d, d)>>

\* the tool's result for the row the name lookup returned (NULL: none);
\* up: the direction in which a float carrying rounding error leaves an
\* exact half
ToolCalculateExposureResult(sid, intensity, lamp_age, decimal, up) ==
    IF sid = NULL THEN ToolExposureError
    ELSE IF ToolExposureRaises(plates[sid], intensity, decimal)
    THEN ToolExposureError
    ELSE LET row == plates[sid]
             degradation_factor == DegradationFactor(lamp_age)
             tie == IF up THEN "up" ELSE "down"
             exact == IF ExactFactor(degradation_factor) THEN "even" ELSE tie
             \* effective_intensity = eff_n / FactorScale
             eff_n == intensity * degradation_factor
             min_energy == OrDefault(row.main_exposure_energy_min_mj_cm2, 800)
             max_energy == OrDefault(row.main_exposure_energy_max_mj_cm2, 1200)
             \* target_energy = sum / 2
             sum == min_energy + max_energy
             \* main_time_seconds = (sum / 2) / (eff_n / FactorScale)
             \*                   = main_n / main_d
             main_n == sum * (FactorScale \div 2)
             main_d == eff_n
             \* back_energy = 0.22 * sum / 2 = 11 * sum / 100,
             \* back_time_seconds = back_n / back_d
             back_n == 11 * sum * (FactorScale \div 100)
             back_d == eff_n
         IN [error |-> FALSE,
             calculation |->
                 [input_intensity_mw_cm2 |-> intensity,
                  lamp_age_hours |-> lamp_age,
                  \* round(effective_intensity, 1), in tenths
                  effective_intensity_mw_cm2 |->
                      RoundRatio(10 * eff_n, FactorScale, exact),
                  \* round(degradation_factor, 2), in hundredths
                  degradation_factor |->
                      RoundRatio(100 * degradation_factor, FactorScale, exact)],
             exposure_times |->
                 [main_exposure |->
                      [seconds |-> RoundRatio(main_n, main_d, exact),
                       formatted |-> FormatTime(main_n, main_d),
                       energy_mj_cm2 |-> RoundRatio(sum, 2, "even")],
                  back_exposure |->
                      [seconds |-> RoundRatio(back_n, back_d, tie),
                       formatted |-> FormatTime(back_n, back_d),
                       energy_mj_cm2 |-> RoundRatio(22 * sum, 200, tie)]],
             recommendations |-> <<min_energy, max_energy>>]

\* what the tool computed on the way: the unrounded degradation factor and
\* effective intensity (in ten-thousandths)
ToolExposureLocals(sid, intensity, lamp_age) ==
    [source |-> sid, candidates |-> <<>>, scored |-> <<>>,
     degradation_factor |-> DegradationFactor(lamp_age),
     effective_intensity |-> intensity * DegradationFactor(lamp_age)]

-----------------------------------------------------------------------------
(* The catalog *)

ft == <<"f", "t">>
rt == <<"r", "t">>

\* a row of plates joined with its plate_families row (process_type,
\* supplier_id); the exposure energies are in mJ/cm2
Plate(is_active, thickness_mm, hardness_shore, surface_type, imaging_type, process_type, supplier_id, display_name, sku_code, energies) ==
    [is_active |-> is_active, thickness_mm |-> thickness_mm,
     hardness_shore |-> hardness_shore, surface_type |-> surface_type,
     imaging_type |-> imaging_type, process_type |-> process_type,
     supplier_id |-> supplier_id, display_name |-> display_name,
     sku_code |-> sku_code,
     main_exposure_energy_min_mj_cm2 |-> energies[1],
     main_exposure_energy_max_mj_cm2 |-> energies[2],
     back_exposure_energy_min_mj_cm2 |-> energies[3],
     back_exposure_energy_max_mj_cm2 |-> energies[4]]

NoEnergies == <<NULL, NULL, NULL, NULL>>

SupplierNames == <<(<<"A", "b">>), (<<"a", "c">>), (<<"B", "c">>)>>

Catalog ==
    << Plate(TRUE, 1140, 138, ft, <<"d">>, "solvent", 1,
             <<"A", "1">>, <<"x", "1">>, <<800, 1200, 150, 250>>),
       Plate(TRUE, 1140, 136, <<"F", "T", " ">>, <<"D">>, "solvent", 2,
             <<"a", "2">>, NullText, <<1000, 1001, NULL, 0>>),
       Plate(TRUE, 1140, 138, ft, <<"d">>, "thermal", 2,
             <<"B", "3">>, <<"x", "3">>, NoEnergies),
       Plate(TRUE, 1170, 144, ft, NullText, "solvent", 3,
             <<"b", "4">>, NullText, <<30000, 50000, 6000, 8000>>),
       Plate(TRUE, 1240, 160, rt, <<"a">>, "solvent", 3,
             <<"b", "5">>, NullText, NoEnergies),
       Plate(FALSE, 1140, 138, ft, <<"d">>, "solvent", 3,
             <<"b", "6">>, NullText, NoEnergies),
       Plate(TRUE, 1000, NULL, ft, NullText, "solvent", 1,
             <<"b", "7">>, NullText, NoEnergies) >>

-----------------------------------------------------------------------------
(* Requests *)

\* every plate's canonical id, another spelling of the first plate's id,
\* a well-formed id of no plate, and a string that is no uuid
IdStrings ==
    {IdString("canon", n) : n \in 1..(Len(plates) + 1)}
        \cup {IdString("upper", 1), IdString("bad", 0)}

Targets == {NullText, <<>>, <<"B">>, <<"_">>}

Limits == (0 - 1)..MaxLimit \cup {DefaultLimit}

-----------------------------------------------------------------------------
(* Specification *)

\* the other tables empty, the news cache as the module is loaded
InitImportTables == plate_documents = {}

InitAccounts ==
    /\ users = <<>>
    /\ user_favorite_plates = {}
    /\ user_equipment = {}
    /\ saved_recipes = {}
    /\ calls = {}

InitCards == reference_cards = <<>>

InitNews ==
    /\ news_cache = [items |-> <<>>, last_fetch |-> NULL]
    /\ now = 0
    /\ fetches = {}

InitKnowledge ==
    /\ knowledge_documents = {}
    /\ knowledge_chunks = {}

InitStores ==
    /\ InitImportTables
    /\ InitAccounts
    /\ InitCards
    /\ InitNews
    /\ InitKnowledge

\* no request served yet
InitRequest ==
    /\ op = "none"
    /\ req = <<>>
    /\ resp = <<>>
    /\ locals = NoLocals

Init ==
    /\ plates = Catalog
    /\ suppliers = SupplierNames
    /\ op = "none"
    /\ req = <<>>
    /\ resp = <<>>
    /\ locals = NoLocals
    /\ InitStores

\* a request is served from the idle state; the handlers keep nothing
\* between requests, so one request per behaviour covers them all
Idle == op = "none"

\* find_equivalent_plates on a request drawn from the given sets
FindEquivalentPlatesOn(ids, targets, excludes, limits) ==
    /\ Idle
    /\ \E plate_id \in ids, target_supplier \in targets,
          exclude_same_supplier \in excludes, limit \in limits :
      \E candidates \in CandidateOrders(plate_id, target_supplier,
                                        exclude_same_supplier) :
        \E ups \in SUBSET OnBandEdge(UuidOf(plate_id),
                                     {candidates[i] : i \in DOMAIN candidates}) :
          \E r \in {FindEquivalentPlatesResult(plate_id, target_supplier,
                                               exclude_same_supplier, limit,
                                               candidates, ups)} :
             /\ op' = "find_equivalent_plates"
             /\ req' = FindRequest(plate_id, target_supplier,
                                   exclude_same_supplier, limit)
             /\ resp' = r.resp
             /\ locals' = r.locals
             /\ UNCHANGED <<plates, suppliers, storeVars>>

\* tool_find_equivalents on arguments drawn from the given sets; the
\* source is any one plate the name lookup matches (LIMIT 1, no ORDER BY)
ToolFindEquivalentsOn(names, targets) ==
    /\ Idle
    /\ \E plate_name \in names, target_supplier \in targets, decimal \in BOOLEAN :
        \E sid \in (IF NameMatches(plate_name) = {} THEN {NULL}
                    ELSE NameMatches(plate_name)) :
          \E rows \in (IF sid = NULL THEN {<<>>}
                       ELSE ToolRowOrders(sid, target_supplier)) :
             /\ op' = "tool_find_equivalents"
             /\ req' = [plate_name |-> plate_name,
                        target_supplier |-> target_supplier,
                        decimal |-> decimal]
             /\ resp' = ToolFindEquivalentsResult(sid, rows, decimal)
             /\ locals' = [source |-> sid, candidates |-> rows, scored |-> <<>>]
             /\ UNCHANGED <<plates, suppliers, storeVars>>

\* suggest_equivalencies for a plate id drawn from the given set
SuggestEquivalenciesOn(ids) ==
    /\ Idle
    /\ \E n \in ids, decimal \in BOOLEAN :
        \E sid \in {IF n \in DOMAIN plates THEN n ELSE NULL} :
          \E rows \in (IF sid = NULL THEN {<<>>} ELSE SuggestRowOrders(sid)) :
             /\ op' = "suggest_equivalencies"
             /\ req' = [plate_id |-> UuidStr(n), decimal |-> decimal]
             /\ resp' = SuggestEquivalenciesResult(sid, rows, decimal)
             /\ locals' = [source |-> sid, candidates |-> rows, scored |-> <<>>]
             /\ UNCHANGED <<plates, suppliers, storeVars>>

\* calculate_exposure as it would be if it stored the energies it assumes
\* for a plate that has none
CalculateExposureStoringDefaults(ids, intensities, floors) ==
    /\ Idle
    /\ \E plate_id \in ids, current_intensity_mw_cm2 \in intensities,
          target_floor_mm \in floors :
             /\ op' = "calculate_exposure"
             /\ req' = [plate_id |-> plate_id,
                        current_intensity_mw_cm2 |-> current_intensity_mw_cm2,
                        target_floor_mm |-> target_floor_mm]
             /\ resp' = CalculateExposureResult(plate_id, current_intensity_mw_cm2)
             /\ locals' = NoLocals
             /\ plates' =
                  IF UuidParses(plate_id) /\ UuidOf(plate_id) \in DOMAIN plates
                  THEN [plates EXCEPT
                          ![UuidOf(plate_id)].main_exposure_energy_min_mj_cm2 =
                              OrDefault(@, 800),
                          ![UuidOf(plate_id)].main_exposure_energy_max_mj_cm2 =
                              OrDefault(@, 1200)]
                  ELSE plates
             /\ UNCHANGED <<suppliers, storeVars>>

\* calculate_exposure on a request drawn from the given sets
CalculateExposureOn(ids, intensities, floors) ==
    /\ Idle
    /\ \E plate_id \in ids, current_intensity_mw_cm2 \in intensities,
          target_floor_mm \in floors :
             /\ op' = "calculate_exposure"
             /\ req' = [plate_id |-> plate_id,
                        current_intensity_mw_cm2 |-> current_intensity_mw_cm2,
                        target_floor_mm |-> target_floor_mm]
             /\ resp' = CalculateExposureResult(plate_id, current_intensity_mw_cm2)
             /\ locals' = NoLocals
             /\ UNCHANGED <<plates, suppliers, storeVars>>

\* tool_calculate_exposure on arguments drawn from the given sets
ToolCalculateExposureOn(names, intensities, lamp_ages) ==
    /\ Idle
    /\ \E plate_name \in names, intensity \in intensities,
          lamp_age \in lamp_ages, decimal \in BOOLEAN, up \in BOOLEAN :
        \E sid \in (IF NameMatches(plate_name) = {} THEN {NULL}
                    ELSE NameMatches(plate_name)) :
             /\ op' = "tool_calculate_exposure"
             /\ req' = [plate_name |-> plate_name,
                        uv_intensity_mw_cm2 |-> intensity,
                        lamp_age_hours |-> lamp_age,
                        decimal |-> decimal]
             /\ resp' = ToolCalculateExposureResult(sid, intensity, lamp_age,
                                                    decimal, up)
             /\ locals' = ToolExposureLocals(sid, intensity, lamp_age)
             /\ UNCHANGED <<plates, suppliers, storeVars>>

PlateNames == {<<>>, <<"A", "1">>, <<"b">>, <<"z">>}

Intensities == {0 - 20, 0, 1, 7, 20}

FindEquivalentPlates ==
    FindEquivalentPlatesOn(IdStrings, Targets, BOOLEAN, Limits)

ToolFindEquivalents == ToolFindEquivalentsOn(PlateNames, Targets)

SuggestEquivalencies == SuggestEquivalenciesOn(1..(Len(plates) + 1))

\* target_floor_mm in micrometres; NULL: not supplied
Floors == {NULL, 900}

\* lamp_age_hours
LampAges == {0, 150, 5000}

CalculateExposure == CalculateExposureOn(IdStrings, Intensities, Floors)

ToolCalculateExposure ==
    ToolCalculateExposureOn(PlateNames, Intensities, LampAges)

Next ==
    \/ FindEquivalentPlates
    \/ ToolFindEquivalents
    \/ SuggestEquivalencies
    \/ CalculateExposure
    \/ ToolCalculateExposure

Spec == Init /\ [][Next]_vars

-----------------------------------------------------------------------------
(* Scoring specification: the three scorers over every combination of      *)
(* attributes.  The catalog holds a source plate and two candidates of     *)
(* another supplier that differ in thickness alone; the requests carry     *)
(* the default parameters.                                                 *)

\* candidate thicknesses by growing distance from the source thickness 1000
ThicknessChain == <<1000, 1020, 980, 1022, 1050, 1100, 1120, 1150, 1200>>

\* the thickness that follows t in the chain; 1000 follows NULL and the end
NextThickness(t) ==
    IF \E i \in 1..(Len(ThicknessChain) - 1) : ThicknessChain[i] = t
    THEN ThicknessChain[(CHOOSE i \in 1..(Len(ThicknessChain) - 1) :
                             ThicknessChain[i] = t) + 1]
    ELSE ThicknessChain[1]

SourcePlates ==
    {Plate(TRUE, t, h, sf, im, "solvent", 1, <<"A", "1">>, NullText, NoEnergies) :
        t \in {NULL, 1000}, h \in {NULL, 120},
        sf \in {NullText, <<"F", "T", " ">>}, im \in {NullText, <<"d">>}}

CandidatePlates ==
    {Plate(TRUE, t, h, sf, im, pr, 2, <<"b", "2">>, NullText, NoEnergies) :
        t \in {NULL} \cup {ThicknessChain[i] : i \in DOMAIN ThicknessChain},
        h \in {NULL, 120, 122, 126, 146},
        sf \in {NullText, ft, <<"F", "T", " ">>, rt},
        im \in {NullText, <<"d">>, <<"a">>},
        pr \in {"solvent", "thermal"}}

InitScore ==
    /\ \E source \in SourcePlates, cand \in CandidatePlates :
          plates = <<source, cand,
                     [cand EXCEPT !.thickness_mm = NextThickness(cand.thickness_mm),
                                  !.display_name = <<"b", "3">>]>>
    /\ suppliers = SupplierNames
    /\ op = "none"
    /\ req = <<>>
    /\ resp = <<>>
    /\ locals = NoLocals
    /\ InitStores

ScoreFind ==
    FindEquivalentPlatesOn({IdString("canon", 1)}, {NullText}, {TRUE}, {DefaultLimit})

ScoreTool == ToolFindEquivalentsOn({<<"A", "1">>}, {NullText})

ScoreSuggest == SuggestEquivalenciesOn({1})

NextScore == ScoreFind \/ ScoreTool \/ ScoreSuggest

ScoreSpec == InitScore /\ [][NextScore]_vars

-----------------------------------------------------------------------------
(* Exposure specification: the two exposure calculators over the catalog,  *)
(* with more intensities, lamp ages and floors than Spec draws.            *)

\* measured UV intensities in mW/cm2
ExposureIntensities == {0 - 20, 0, 1, 7, 18, 20, 50}

\* target_floor_mm in micrometres
ExposureFloors == {NULL, 200, 900}

\* lamp_age_hours
ExposureLampAges == {0 - 5, 0, 1, 150, 5000, 9999, 10000, 20000}

ExposureCalculate ==
    CalculateExposureOn(IdStrings, ExposureIntensities, ExposureFloors)

ExposureTool ==
    ToolCalculateExposureOn(PlateNames, ExposureIntensities, ExposureLampAges)

NextExposure == ExposureCalculate \/ ExposureTool

ExposureSpec == Init /\ [][NextExposure]_vars

-----------------------------------------------------------------------------
(* Reading a finished request *)

FindDone == op = "find_equivalent_plates" /\ resp.status = 200
ToolDone == op = "tool_find_equivalents" /\ ~resp.error
SuggestDone == op = "suggest_equivalencies" /\ ~resp.raised

\* one of the three equivalency scorers has returned scores
ScorerDone == FindDone \/ ToolDone \/ SuggestDone

\* the plate a returned or scored entry stands for
EntryPlate(e) == UuidOf(e.id)

\* every entry the finished scorer gave a score: the whole scored list of
\* find_equivalent_plates, the returned list of the other two
ScoredEntries ==
    IF FindDone THEN {locals.scored[i] : i \in DOMAIN locals.scored}
    ELSE IF ToolDone \/ SuggestDone
         THEN {resp.equivalents[i] : i \in DOMAIN resp.equivalents}
    ELSE {}

\* the source plate the finished scorer resolved
Source == plates[locals.source]

\* |thickness difference| between the source and plate c, both known
ThicknessDiff(c) == Abs(plates[c].thickness_mm - Source.thickness_mm)
HasThicknessDiff(c) == Source.thickness_mm # NULL /\ plates[c].thickness_mm # NULL

\* position at which candidate row c arrived from the query
ArrivalPos(c) == CHOOSE i \in DOMAIN locals.candidates : locals.candidates[i] = c

ReturnedPlates == {EntryPlate(resp.equivalents[i]) : i \in DOMAIN resp.equivalents}

\* number of scored candidates whose score is at least n
ScoredAtLeast(n) ==
    Cardinality({i \in DOMAIN locals.scored : locals.scored[i].match_score >= n})

-----------------------------------------------------------------------------
(* C1 *)

\* C1: a candidate whose process_type differs from the source's gets the
\* similarity score 0 from each of the three scorers.
C1_DisqualifierPrecedence ==
    ScorerDone =>
        \A e \in ScoredEntries :
            plates[EntryPlate(e)].process_type # Source.process_type
                => e.similarity_score = 0

-----------------------------------------------------------------------------
(* C2 *)

\* C2: every similarity score a scorer reports is an integer from 0 to 100.
C2_ScoreBounds ==
    ScorerDone => \A e \in ScoredEntries : e.similarity_score \in 0..100

\* find_equivalent_plates scored a candidate whose unknown thickness,
\* hardness mismatch, surface mismatch and imaging mismatch add up to -15
C2_Witness ==
    /\ FindDone
    /\ \E e \in ScoredEntries :
          /\ e.similarity_score = 0
          /\ Len(e.match_details) = 3
          /\ e.match_details[1].msg = "hardness: mismatch"
          /\ e.match_details[2].msg = "surface: MISMATCH"
          /\ e.match_details[3].msg = "imaging: MISMATCH"

-----------------------------------------------------------------------------
(* C6 *)

-----------------------------------------------------------------------------
(* C7 *)

\* two plates that agree in every attribute a scorer reads but thickness
SameButThickness(c, d) ==
    /\ plates[c].hardness_shore = plates[d].hardness_shore
    /\ plates[c].surface_type = plates[d].surface_type
    /\ plates[c].imaging_type = plates[d].imaging_type
    /\ plates[c].process_type = plates[d].process_type
    /\ plates[c].supplier_id = plates[d].supplier_id
    /\ plates[c].is_active = plates[d].is_active

\* C7: of two scored candidates that differ in thickness alone, the one
\* farther from the source thickness never has the higher score.
\* Thicknesses are whole micrometres, so two different differences are
\* farther apart than the rounding error of the float subtraction.
C7_ThicknessMonotone ==
    ScorerDone =>
        \A a, b \in ScoredEntries :
            (/\ SameButThickness(EntryPlate(a), EntryPlate(b))
             /\ HasThicknessDiff(EntryPlate(a))
             /\ HasThicknessDiff(EntryPlate(b))
             /\ ThicknessDiff(EntryPlate(a)) < ThicknessDiff(EntryPlate(b)))
                => a.similarity_score >= b.similarity_score

\* find_equivalent_plates scored both candidates and the nearer one is
\* strictly ahead
C7_Witness ==
    /\ FindDone
    /\ \E a, b \in ScoredEntries :
          /\ SameButThickness(EntryPlate(a), EntryPlate(b))
          /\ HasThicknessDiff(EntryPlate(a))
          /\ HasThicknessDiff(EntryPlate(b))
          /\ ThicknessDiff(EntryPlate(a)) < ThicknessDiff(EntryPlate(b))
          /\ a.similarity_score > b.similarity_score
          /\ b.similarity_score > 0

-----------------------------------------------------------------------------
(* C8 *)

\* C8: every scored plate is active, is not the source, has the source's
\* process_type and lies within the thickness tolerance of the source.
C8_PoolPreFilter ==
    (FindDone \/ ToolDone) =>
        \A e \in ScoredEntries :
            LET c == EntryPlate(e)
            IN /\ plates[c].is_active
               /\ c # locals.source
               /\ plates[c].process_type = Source.process_type
               /\ HasThicknessDiff(c) => ThicknessDiff(c) <= 150

-----------------------------------------------------------------------------
(* C9 *)

\* C9: with exclude_same_supplier no returned equivalent belongs to the
\* source's supplier, and with a target_supplier every returned
\* equivalent's supplier name contains it, letter case aside.
C9_SupplierFilters ==
    FindDone =>
        \A c \in ReturnedPlates :
            /\ req.exclude_same_supplier =>
                   plates[c].supplier_id # Source.supplier_id
            /\ req.target_supplier # NullText =>
                   Contains(Lower(suppliers[plates[c].supplier_id]),
                            Lower(req.target_supplier))

-----------------------------------------------------------------------------
(* C10 *)

\* the request's plate id names no plate of the catalog
Unresolved == ~UuidParses(req.plate_id) \/ UuidOf(req.plate_id) \notin DOMAIN plates

\* C10: find_equivalent_plates and calculate_exposure answer a plate id
\* that resolves to no plate with 404.
C10_NotFound ==
    (op \in {"find_equivalent_plates", "calculate_exposure"} /\ Unresolved)
        => resp.status = 404

-----------------------------------------------------------------------------
(* C3 *)

\* C3: the equivalents returned by find_equivalent_plates are in descending
\* order of score, and two equivalents with the same score appear in the
\* order in which their rows arrived from the candidate query.
C3_RankingStable ==
    FindDone =>
        \A i, j \in DOMAIN resp.equivalents :
            i < j =>
                LET a == resp.equivalents[i]
                    b == resp.equivalents[j]
                IN /\ a.match_score >= b.match_score
                   /\ a.match_score = b.match_score =>
                          ArrivalPos(EntryPlate(a)) < ArrivalPos(EntryPlate(b))

\* three equivalents are returned, the first two tie and arrived in the
\* order opposite to their ids, behind a row that scores lower than both
C3_Witness ==
    /\ FindDone
    /\ Len(resp.equivalents) >= 3
    /\ resp.equivalents[1].match_score = resp.equivalents[2].match_score
    /\ resp.equivalents[3].match_score < resp.equivalents[2].match_score
    /\ EntryPlate(resp.equivalents[1]) > EntryPlate(resp.equivalents[2])
    /\ ArrivalPos(EntryPlate(resp.equivalents[3]))
           < ArrivalPos(EntryPlate(resp.equivalents[1]))

-----------------------------------------------------------------------------
(* C4 *)

-----------------------------------------------------------------------------
(* C5 *)

\* C5 as claimed: with a limit that truncates nothing, a scored candidate is
\* missing from the returned list exactly when its score is 0.
C5_Original ==
    (FindDone /\ req.limit = DefaultLimit) =>
        \A i \in DOMAIN locals.scored :
            (EntryPlate(locals.scored[i]) \notin ReturnedPlates)
                <=> (locals.scored[i].match_score = 0)

\* C5 (amended): with a limit that truncates nothing, a scored candidate is
\* missing from the returned list exactly when its score is below 50; no
\* candidate scoring below 50 is returned and every candidate scoring 50
\* or more is kept.
C5_ScoreFilter ==
    (FindDone /\ req.limit = DefaultLimit) =>
        \A i \in DOMAIN locals.scored :
            (EntryPlate(locals.scored[i]) \notin ReturnedPlates)
                <=> (locals.scored[i].match_score < 50)

\* one candidate scoring 0 and one scoring between 1 and 49 are dropped,
\* one scoring at least 50 is returned
C5_Witness ==
    /\ FindDone
    /\ req.limit = DefaultLimit
    /\ \E i, j, k \in DOMAIN locals.scored :
          /\ locals.scored[i].match_score = 0
          /\ locals.scored[j].match_score \in 1..49
          /\ locals.scored[k].match_score >= 50
          /\ EntryPlate(locals.scored[i]) \notin ReturnedPlates
          /\ EntryPlate(locals.scored[j]) \notin ReturnedPlates
          /\ EntryPlate(locals.scored[k]) \in ReturnedPlates

-----------------------------------------------------------------------------
(* Reading a finished exposure calculation *)

\* calculate_exposure answered with a result body
ExposureDone == op = "calculate_exposure" /\ resp.status = 200

\* tool_calculate_exposure answered with exposure times
ToolExposureDone == op = "tool_calculate_exposure" /\ ~resp.error

\* the plate row calculate_exposure read
ExposurePlate == plates[UuidOf(req.plate_id)]

\* calculate_exposure was asked about a plate of the catalog
ExposureResolved ==
    /\ op = "calculate_exposure"
    /\ UuidParses(req.plate_id)
    /\ UuidOf(req.plate_id) \in DOMAIN plates

\* tool_calculate_exposure found a plate of that name
ToolExposureResolved == op = "tool_calculate_exposure" /\ locals.source # NULL

-----------------------------------------------------------------------------
(* C16 *)

\* C16: for a positive intensity and a plate with both main energy bounds,
\* the main exposure time is ((min + max) / 2) / effective_intensity, to the
\* second, in calculate_exposure and in tool_calculate_exposure.
C16_MainExposureTime ==
    /\ (ExposureDone /\ req.current_intensity_mw_cm2 > 0
          /\ ExposurePlate.main_exposure_energy_min_mj_cm2 # NULL
          /\ ExposurePlate.main_exposure_energy_max_mj_cm2 # NULL)
         => LET sum == ExposurePlate.main_exposure_energy_min_mj_cm2
                         + ExposurePlate.main_exposure_energy_max_mj_cm2
                d == 2 * req.current_intensity_mw_cm2
            IN Abs(resp.exposure.main_exposure_time_s * d - sum) < d
    /\ (ToolExposureDone /\ req.uv_intensity_mw_cm2 > 0
          /\ Source.main_exposure_energy_min_mj_cm2 # NULL
          /\ Source.main_exposure_energy_max_mj_cm2 # NULL)
         => LET sum == Source.main_exposure_energy_min_mj_cm2
                         + Source.main_exposure_energy_max_mj_cm2
                d == 2 * locals.effective_intensity
            IN Abs(resp.exposure_times.main_exposure.seconds * d
                     - sum * FactorScale) <= d

-----------------------------------------------------------------------------
(* C17 *)

\* C17: for a lamp age above 0 the degradation factor is
\* max(0.5, 1 - lamp_age_hours / 10000), so it is 0.5 from 10000 hours on
\* and never lower; with no lamp age the effective intensity is the
\* measured one. The reported factor and intensity are these values
\* rounded to 2 and to 1 decimals.
C17_LampDegradation ==
    /\ ToolExposureResolved =>
         LET age == req.lamp_age_hours
             linear == FactorScale - age
         IN /\ age > 0 =>
                  /\ locals.degradation_factor =
                        (IF 2 * linear > FactorScale THEN linear
                         ELSE FactorScale \div 2)
                  /\ 2 * locals.degradation_factor >= FactorScale
            /\ age >= 10000 => 2 * locals.degradation_factor = FactorScale
            /\ age <= 0 =>
                  locals.effective_intensity
                      = req.uv_intensity_mw_cm2 * FactorScale
            /\ locals.effective_intensity
                   = req.uv_intensity_mw_cm2 * locals.degradation_factor
    /\ ToolExposureDone =>
         /\ resp.calculation.degradation_factor \in 50..100
         /\ req.lamp_age_hours >= 10000 =>
                resp.calculation.degradation_factor = 50
         /\ req.lamp_age_hours <= 0 =>
                resp.calculation.effective_intensity_mw_cm2
                    = 10 * req.uv_intensity_mw_cm2
    /\ ExposureDone =>
         resp.input.intensity_mw_cm2 = req.current_intensity_mw_cm2

\* a lamp of 20000 hours halves the measured 20 mW/cm2: the plate with the
\* energy range [800, 1200] gets 1000 / 10 = 100 seconds
C17_Witness ==
    /\ ToolExposureDone
    /\ req.lamp_age_hours = 20000
    /\ req.uv_intensity_mw_cm2 = 20
    /\ resp.calculation.degradation_factor = 50
    /\ resp.calculation.effective_intensity_mw_cm2 = 100
    /\ Source.main_exposure_energy_min_mj_cm2 = 800
    /\ resp.exposure_times.main_exposure.seconds = 100

-----------------------------------------------------------------------------
(* C18 *)

\* C18: for an intensity of zero or below, both exposure calculators reject
\* the request - calculate_exposure with a 4xx status, the tool with an
\* error - and return no exposure time.
C18_NonPositiveIntensity ==
    /\ (ExposureResolved /\ req.current_intensity_mw_cm2 <= 0)
         => resp.status \in 400..499
    /\ (ToolExposureResolved /\ req.uv_intensity_mw_cm2 <= 0)
         => resp.error

-----------------------------------------------------------------------------
(* C19 *)

\* C19: at a positive intensity, a plate without a main (back) exposure
\* energy gets a null main (back) exposure time; no default energy stands
\* in.
C19_AbsentEnergyNull ==
    /\ (ExposureDone /\ req.current_intensity_mw_cm2 > 0) =>
         /\ (\/ ExposurePlate.main_exposure_energy_min_mj_cm2 = NULL
             \/ ExposurePlate.main_exposure_energy_max_mj_cm2 = NULL)
               => resp.exposure.main_exposure_time_s = NULL
         /\ (\/ ExposurePlate.back_exposure_energy_min_mj_cm2 = NULL
             \/ ExposurePlate.back_exposure_energy_max_mj_cm2 = NULL)
               => resp.exposure.back_exposure_time_s = NULL
    /\ (ToolExposureDone /\ req.uv_intensity_mw_cm2 > 0) =>
         /\ (\/ Source.main_exposure_energy_min_mj_cm2 = NULL
             \/ Source.main_exposure_energy_max_mj_cm2 = NULL)
               => resp.exposure_times.main_exposure.seconds = NULL

-----------------------------------------------------------------------------
(* C20 *)

\* the back exposure time calculate_exposure gives the same plate and
\* intensity when no floor is asked for
UnadjustedBackTime ==
    CalculateExposureResult(req.plate_id, req.current_intensity_mw_cm2)
        .exposure.back_exposure_time_s

\* C20: at a positive intensity, with a target floor whose relief, thickness - target_floor_mm, is
\* below the recommended relief of 0.6 * thickness, the back exposure time
\* is the unadjusted time times
\* 1 + (recommended - relief) / recommended * 0.2, to the second.
C20_FloorAdjustment ==
    (/\ ExposureDone
     /\ req.current_intensity_mw_cm2 > 0
     /\ req.target_floor_mm # NULL
     /\ Truthy(ExposurePlate.thickness_mm)
     /\ 10 * (ExposurePlate.thickness_mm - req.target_floor_mm)
            < 6 * ExposurePlate.thickness_mm)
      => LET t == ExposurePlate.thickness_mm
             relief == t - req.target_floor_mm
         IN Abs(resp.exposure.back_exposure_time_s * 30 * t
                  - UnadjustedBackTime * (36 * t - 10 * relief)) < 30 * t

-----------------------------------------------------------------------------
(* C11 *)

\* plate c has the source's thickness, process type and surface type, and
\* a hardness within 1 Shore A of the source's; neither states an imaging
\* type
NearIdentical(c) ==
    /\ Source.thickness_mm # NULL
    /\ plates[c].thickness_mm = Source.thickness_mm
    /\ plates[c].process_type = Source.process_type
    /\ Source.surface_type # NullText
    /\ plates[c].surface_type = Source.surface_type
    /\ Source.hardness_shore # NULL
    /\ plates[c].hardness_shore # NULL
    /\ Abs(plates[c].hardness_shore - Source.hardness_shore) <= 2
    /\ Source.imaging_type = NullText
    /\ plates[c].imaging_type = NullText

\* C11: a candidate with the source's thickness, process type and surface
\* type and a hardness within 1 Shore A, nothing else stated, scores at
\* least 90 in find_equivalent_plates and in tool_find_equivalents.
C11_NearIdenticalExcellent ==
    (FindDone \/ ToolDone) =>
        \A e \in ScoredEntries :
            NearIdentical(EntryPlate(e)) => e.similarity_score >= 90

-----------------------------------------------------------------------------
(* C12 *)

\* plate p with one optional attribute unknown
WithoutAttr(p, attr) ==
    IF attr = "hardness" THEN [p EXCEPT !.hardness_shore = NULL]
    ELSE IF attr = "surface" THEN [p EXCEPT !.surface_type = NullText]
    ELSE [p EXCEPT !.imaging_type = NullText]

\* the attribute is stated on both sides and does not match at all: more
\* than 12 Shore A apart, or two different surface or imaging types
FullMismatch(s, c, attr) ==
    IF attr = "hardness"
    THEN /\ Truthy(s.hardness_shore) /\ Truthy(c.hardness_shore)
         /\ Abs(s.hardness_shore - c.hardness_shore) > 24
    ELSE IF attr = "surface"
    THEN /\ NormText(s.surface_type) # <<>> /\ NormText(c.surface_type) # <<>>
         /\ NormText(s.surface_type) # NormText(c.surface_type)
    ELSE /\ NormText(s.imaging_type) # <<>> /\ NormText(c.imaging_type) # <<>>
         /\ NormText(s.imaging_type) # NormText(c.imaging_type)

\* C12: a pair whose hardness, surface type or imaging type is stated on
\* both sides and fully mismatched never scores higher than the same pair
\* with that attribute unknown on both sides, in find_equivalent_plates and
\* in suggest_equivalencies (which reads hardness and surface type).
C12_NeutralMissingData ==
    /\ FindDone =>
         \A e \in ScoredEntries : \A attr \in {"hardness", "surface", "imaging"} :
             LET c == plates[EntryPlate(e)]
             IN FullMismatch(Source, c, attr) =>
                  \E up \in BOOLEAN :
                      /\ e.match_score = Clamp(RawScore(Source, c, up).score)
                      /\ e.match_score
                           <= Clamp(RawScore(WithoutAttr(Source, attr),
                                             WithoutAttr(c, attr), up).score)
    /\ SuggestDone =>
         \A e \in ScoredEntries : \A attr \in {"hardness", "surface"} :
             LET c == plates[EntryPlate(e)]
             IN FullMismatch(Source, c, attr) =>
                  e.similarity_score
                      <= RoundTenths(SuggestScore(WithoutAttr(Source, attr),
                                                  WithoutAttr(c, attr)))

\* find_equivalent_plates scored a pair with mismatched surface types 20
\* points below the same pair without surface types
C12_Witness ==
    /\ FindDone
    /\ \E e \in ScoredEntries : \E up \in BOOLEAN :
          LET c == plates[EntryPlate(e)]
          IN /\ FullMismatch(Source, c, "surface")
             /\ e.match_score = Clamp(RawScore(Source, c, up).score)
             /\ e.match_score > 0
             /\ e.match_score + 20
                  = Clamp(RawScore(WithoutAttr(Source, "surface"),
                                   WithoutAttr(c, "surface"), up).score)

-----------------------------------------------------------------------------
(* C13 *)

\* an optional attribute is missing on plate p
MissingOptional(p) ==
    \/ p.hardness_shore = NULL
    \/ p.surface_type = NullText
    \/ p.imaging_type = NullText

\* C13: with an optional attribute missing on the source or on a candidate,
\* find_equivalent_plates and tool_find_equivalents still return a result
\* in which every candidate row has a score.
C13_ScorerNeverFails ==
    /\ (/\ op = "find_equivalent_plates"
        /\ locals.source # NULL)
         => /\ resp.status = 200
            /\ Len(locals.scored) = Len(locals.candidates)
    /\ (/\ op = "tool_find_equivalents"
        /\ locals.source # NULL
        /\ Source.thickness_mm # NULL
        /\ ~req.decimal
        /\ \/ MissingOptional(Source)
           \/ \E i \in DOMAIN locals.candidates :
                  MissingOptional(plates[locals.candidates[i]]))
         => /\ ~resp.error
            /\ Len(resp.equivalents) = Len(locals.candidates)

-----------------------------------------------------------------------------
(* C14 *)

\* the note of the surface dimension among the match_details of e
SurfaceNotes(e) ==
    {i \in DOMAIN e.match_details :
        e.match_details[i].msg \in {"surface: match", "surface: MISMATCH",
                                    "surface: unknown"}}

\* C14: in find_equivalent_plates the surface dimension adds its full 25
\* points when the surface types are equal, adds exactly 0 with a note
\* naming both values when both are set and differ, and adds nothing and
\* no note when either is unset.
C14_SurfaceScoring ==
    FindDone =>
        \A e \in ScoredEntries :
            LET c == plates[EntryPlate(e)]
                ss == NormText(Source.surface_type)
                cs == NormText(c.surface_type)
                part == SurfacePart(Source, c)
            IN /\ (ss # <<>> /\ ss = cs) => part.score = 25
               /\ (ss # <<>> /\ cs # <<>> /\ ss # cs) =>
                      /\ part.score = 0
                      /\ \E i \in SurfaceNotes(e) :
                             /\ e.match_details[i].a = ss
                             /\ e.match_details[i].b = cs
               /\ (ss = <<>> \/ cs = <<>>) =>
                      /\ part.score = 0
                      /\ SurfaceNotes(e) = {}

-----------------------------------------------------------------------------
(* C15 *)

\* C15: every equivalent that find_equivalent_plates or
\* tool_find_equivalents returns carries the quality label of its reported
\* score: Excellent from 90, Good from 75, Fair from 60, Poor below.
C15_QualityBucketing ==
    (FindDone \/ ToolDone) =>
        \A i \in DOMAIN resp.equivalents :
            LET e == resp.equivalents[i]
            IN e.match_quality =
                 (IF e.similarity_score >= 90 THEN "Excellent"
                  ELSE IF e.similarity_score >= 75 THEN "Good"
                  ELSE IF e.similarity_score >= 60 THEN "Fair"
                  ELSE "Poor")

-----------------------------------------------------------------------------
(* C21 *)

\* C21: a find request whose limit is zero or negative is refused with a
\* client error (4xx) and returns no result list.  Read on requests whose
\* source plate resolves, where nothing else can refuse them.
C21_NonPositiveLimitRejected ==
    (op = "find_equivalent_plates" /\ ~Unresolved /\ req.limit <= 0) =>
        /\ resp.status \in 400..499
        /\ resp.equivalents = <<>>

-----------------------------------------------------------------------------
(* Repeat specification: a find request, then the same request again      *)
(* against the unchanged catalog.                                          *)

\* find_equivalent_plates served once more with the parameters it was just
\* served with.  The candidate query has no ORDER BY, so the rows arrive in
\* any order again; a row's float arithmetic repeats, so every candidate is
\* given the entry it was given before.
FindEquivalentPlatesAgain ==
    /\ op = "find_equivalent_plates"
    /\ \E candidates \in CandidateOrders(req.plate_id, req.target_supplier,
                                        req.exclude_same_supplier) :
        \E ups \in SUBSET OnBandEdge(UuidOf(req.plate_id),
                                     {candidates[i] : i \in DOMAIN candidates}) :
          \E r \in {FindEquivalentPlatesResult(req.plate_id, req.target_supplier,
                                               req.exclude_same_supplier, req.limit,
                                               candidates, ups)} :
             /\ {r.locals.scored[i] : i \in DOMAIN r.locals.scored}
                    = {locals.scored[i] : i \in DOMAIN locals.scored}
             /\ resp' = r.resp
             /\ locals' = r.locals
             /\ UNCHANGED <<plates, suppliers, op, req, storeVars>>

RepeatLimits == {1, DefaultLimit}

\* the plates asked for twice: one with a large pool, one with a small
\* pool, and a malformed id
RepeatIds == {IdString("canon", 1), IdString("canon", 5), IdString("bad", 0)}

RepeatFind ==
    FindEquivalentPlatesOn(RepeatIds, {NullText, <<"B">>}, BOOLEAN, RepeatLimits)

NextRepeat == RepeatFind \/ FindEquivalentPlatesAgain

RepeatSpec == Init /\ [][NextRepeat]_vars

-----------------------------------------------------------------------------
(* C22 *)

\* C22: a find request repeated with the same parameters against the same
\* catalog returns the same response: the same candidates with the same
\* scores and notes in the same order, equal scores included.
C22_Determinism ==
    [][(op = "find_equivalent_plates" /\ op' = op /\ req' = req
            /\ plates' = plates /\ suppliers' = suppliers)
          => resp' = resp]_vars

-----------------------------------------------------------------------------
(* C23 *)

\* C23: a step that serves find_equivalent_plates or calculate_exposure
\* leaves every plate and every supplier as it was, whether the request is
\* answered or refused.
C23_ReadOnlyCore ==
    [][op' \in {"find_equivalent_plates", "calculate_exposure"}
          => plates' = plates /\ suppliers' = suppliers]_vars

\* both operations have been served, answered and refused: an answered find
\* with equivalents, or an exposure request refused for a plate without
\* stored energies, over the catalog as it was
C23_Witness ==
    /\ plates = Catalog
    /\ suppliers = SupplierNames
    /\ \/ FindDone /\ resp.equivalents # <<>>
       \/ /\ ExposureResolved
          /\ resp.status = 500
          /\ ExposurePlate.main_exposure_energy_min_mj_cm2 = NULL

-----------------------------------------------------------------------------
(* Data importer (plate_data_importer.py): update_plate_with_extracted_info *)

\* the plates columns the importer reads and writes besides those of Plate;
\* an array column holds a sequence, NullText for NULL
ImportRow(plate, family_name, min_lpi, applications) ==
    plate @@ [family_name |-> family_name,
              min_lpi |-> min_lpi, max_lpi |-> NULL,
              min_dot_percent |-> NULL, max_dot_percent |-> NULL,
              ink_compatibility |-> NullText,
              applications |-> applications,
              substrate_categories |-> NullText,
              data_source_url |-> NullText,
              updated_at |-> 0]

\* update_fields, in the order of the dict
ScalarColumns ==
    <<"hardness_shore", "surface_type", "imaging_type", "min_lpi", "max_lpi",
      "min_dot_percent", "max_dot_percent",
      "main_exposure_energy_min_mj_cm2", "main_exposure_energy_max_mj_cm2",
      "back_exposure_energy_min_mj_cm2", "back_exposure_energy_max_mj_cm2">>

\* array_fields, in the order of the dict
ArrayColumns == <<"ink_compatibility", "applications", "substrate_categories">>

\* the columns that hold text; the other scalar columns hold numbers
TextColumns == {"surface_type", "imaging_type"}

\* the ExtractedPlateInfo attribute a column is filled from
InfoField(column) ==
    CASE column = "main_exposure_energy_min_mj_cm2" -> "main_exposure_min"
      [] column = "main_exposure_energy_max_mj_cm2" -> "main_exposure_max"
      [] column = "back_exposure_energy_min_mj_cm2" -> "back_exposure_min"
      [] column = "back_exposure_energy_max_mj_cm2" -> "back_exposure_max"
      [] OTHER -> column

\* "x is None" for a value of the column
IsNone(column, x) == IF column \in TextColumns THEN x = NullText ELSE x = NULL

\* a scalar column is written whenever a value was extracted for it
ScalarQualifiesAlways(column, value, current) == ~IsNone(column, value)

\* "value is not None and (current[field] is None or current[field] == '')"
ScalarQualifies(column, value, current) ==
    /\ ~IsNone(column, value)
    /\ \/ IsNone(column, current)
       \/ (column \in TextColumns /\ current = <<>>)

\* "value and (not current[field] or len(current[field]) == 0)"
ArrayQualifies(value, current) ==
    /\ value # NullText /\ value # <<>>
    /\ (current = NullText \/ current = <<>>)

ColumnQualifies(column, plate_info, current) ==
    IF \E i \in DOMAIN ArrayColumns : ArrayColumns[i] = column
    THEN ArrayQualifies(plate_info[InfoField(column)], current[column])
    ELSE ScalarQualifies(column, plate_info[InfoField(column)], current[column])

\* updated_fields: the qualifying columns among cols, in order
RECURSIVE QualifyingColumns(_, _, _)
QualifyingColumns(cols, plate_info, current) ==
    IF cols = <<>> THEN <<>>
    ELSE (IF ColumnQualifies(Head(cols), plate_info, current)
          THEN <<Head(cols)>> ELSE <<>>)
             \o QualifyingColumns(Tail(cols), plate_info, current)

\* the row after "UPDATE plates SET <fields>, updated_at = NOW()"
UpdatedRow(current, plate_info, updated_fields, time) ==
    LET written == {updated_fields[i] : i \in DOMAIN updated_fields}
    IN [c \in DOMAIN current |->
          IF c \in written THEN plate_info[InfoField(c)]
          ELSE IF c = "updated_at" THEN time
          ELSE current[c]]

\* an extracted value that makes the loops subscript the row
TouchesRow(plate_info) ==
    \/ \E i \in DOMAIN ScalarColumns :
          ~IsNone(ScalarColumns[i], plate_info[InfoField(ScalarColumns[i])])
    \/ \E i \in DOMAIN ArrayColumns :
          /\ plate_info[ArrayColumns[i]] # NullText
          /\ plate_info[ArrayColumns[i]] # <<>>

\* update_plate_with_extracted_info over the plates table tbl at time
\* `time`: the table afterwards and the value returned.  Without a row of
\* that id, current is None and the first current[field] raises TypeError.
UpdatePlateResult(tbl, plate_id, plate_info, time) ==
    IF plate_id \notin DOMAIN tbl
    THEN [raised |-> TouchesRow(plate_info), plates |-> tbl,
          updated_fields |-> <<>>]
    ELSE LET current == tbl[plate_id]
             updated_fields ==
                 QualifyingColumns(ScalarColumns \o ArrayColumns, plate_info, current)
         IN [raised |-> FALSE,
             plates |-> IF updated_fields = <<>> THEN tbl
                        ELSE [tbl EXCEPT ![plate_id] =
                                 UpdatedRow(current, plate_info, updated_fields, time)],
             updated_fields |-> updated_fields]

\* an ExtractedPlateInfo; the attributes left out of the parameters are None
PlateInfo(plate_name, family_name, thickness_mm, hardness_shore, surface_type, min_lpi, applications) ==
    [plate_name |-> plate_name, family_name |-> family_name,
     sku_code |-> NullText, thickness_mm |-> thickness_mm,
     hardness_shore |-> hardness_shore, process_type |-> "solvent",
     surface_type |-> surface_type, imaging_type |-> NullText,
     min_lpi |-> min_lpi, max_lpi |-> NULL,
     min_dot_percent |-> NULL, max_dot_percent |-> NULL,
     main_exposure_min |-> NULL, main_exposure_max |-> NULL,
     back_exposure_min |-> NULL, back_exposure_max |-> NULL,
     ink_compatibility |-> NullText, applications |-> applications,
     substrate_categories |-> NullText]

-----------------------------------------------------------------------------
(* Data importer: matching, creating, documents *)

\* "SELECT id FROM suppliers WHERE LOWER(name) = LOWER($1)", else INSERT:
\* the suppliers table afterwards and the id returned
GetOrCreateSupplier(sups, supplier_name) ==
    IF \E n \in DOMAIN sups : Lower(sups[n]) = Lower(supplier_name)
    THEN [suppliers |-> sups,
          id |-> CHOOSE n \in DOMAIN sups : Lower(sups[n]) = Lower(supplier_name)]
    ELSE [suppliers |-> Append(sups, supplier_name), id |-> Len(sups) + 1]

\* the row a fetchrow over `rows` returns: the queries have no ORDER BY, so
\* it is the first of them in the order the table happens to be read in
FirstIn(order, rows) ==
    order[CHOOSE i \in DOMAIN order :
              /\ order[i] \in rows
              /\ \A j \in 1..(i - 1) : order[j] \notin rows]

\* the table's ids in reading order: the rows that existed in `order`,
\* rows inserted since behind them
ReadOrder(order, tbl) ==
    order \o [i \in 1..(Len(tbl) - Len(order)) |-> Len(order) + i]

\* find_matching_plate: the id of the matching plate, or NULL
FindMatchingPlate(tbl, plate_info, supplier_id, order) ==
    LET by_name ==
            {c \in DOMAIN tbl :
                /\ tbl[c].supplier_id = supplier_id
                /\ \/ LowerLikeContains(tbl[c].display_name, Lower(plate_info.plate_name))
                   \/ LowerLikeContains(tbl[c].sku_code, Lower(plate_info.plate_name))}
        by_family ==
            {c \in DOMAIN tbl :
                /\ tbl[c].supplier_id = supplier_id
                /\ LowerLikeContains(tbl[c].family_name, Lower(plate_info.family_name))
                /\ SqlAbsDiff(tbl[c].thickness_mm, plate_info.thickness_mm) # NULL
                /\ SqlAbsDiff(tbl[c].thickness_mm, plate_info.thickness_mm) < 50}
        by_thickness ==
            {c \in DOMAIN tbl :
                /\ tbl[c].supplier_id = supplier_id
                /\ SqlAbsDiff(tbl[c].thickness_mm, plate_info.thickness_mm) # NULL
                /\ SqlAbsDiff(tbl[c].thickness_mm, plate_info.thickness_mm) < 20}
    IN IF TruthyText(plate_info.plate_name) /\ by_name # {}
       THEN FirstIn(ReadOrder(order, tbl), by_name)
       ELSE IF TruthyText(plate_info.family_name) /\ Truthy(plate_info.thickness_mm)
                  /\ by_family # {}
       THEN FirstIn(ReadOrder(order, tbl), by_family)
       ELSE IF Truthy(plate_info.thickness_mm) /\ Cardinality(by_thickness) = 1
       THEN CHOOSE c \in by_thickness : TRUE
       ELSE NULL

\* str(n) of a natural number
RECURSIVE NatText(_)
NatText(n) ==
    LET digit == <<"0", "1", "2", "3", "4", "5", "6", "7", "8", "9">>[(n % 10) + 1]
    IN IF n < 10 THEN <<digit>> ELSE NatText(n \div 10) \o <<digit>>

\* the digits behind the point of r thousandths, trailing zeros dropped
FractionText(r) ==
    IF r % 1000 = 0 THEN <<"0">>
    ELSE IF r % 100 = 0 THEN NatText(r \div 100)
    ELSE IF r % 10 = 0
         THEN (IF r < 100 THEN <<"0">> ELSE <<>>) \o NatText(r \div 10)
    ELSE (IF r < 10 THEN <<"0", "0">> ELSE IF r < 100 THEN <<"0">> ELSE <<>>)
             \o NatText(r)

\* f"{thickness_mm}" of a float held in micrometres: 1140 prints "1.14"
FloatText(t) == NatText(t \div 1000) \o <<".">> \o FractionText(t % 1000)

\* create_new_plate: the table afterwards and the id returned, NULL when
\* the extracted plate has no thickness.  The family is found by supplier
\* and LOWER(family_name), and gives the row its process_type; a family
\* created here takes the extracted process_type.  is_active and
\* updated_at take their column defaults.
CreateNewPlate(tbl, plate_info, supplier_id, supplier_name, time) ==
    IF ~Truthy(plate_info.thickness_mm) THEN [plates |-> tbl, id |-> NULL]
    ELSE LET family_name ==
                 IF TruthyText(plate_info.family_name) THEN plate_info.family_name
                 ELSE supplier_name \o <<" ", "P", "l", "a", "t", "e">>
             families ==
                 {c \in DOMAIN tbl :
                     /\ tbl[c].supplier_id = supplier_id
                     /\ Lower(tbl[c].family_name) = Lower(family_name)}
             family == IF families = {}
                       THEN [family_name |-> family_name,
                             process_type |-> plate_info.process_type]
                       ELSE tbl[CHOOSE c \in families : TRUE]
             display_name ==
                 IF TruthyText(plate_info.plate_name) THEN plate_info.plate_name
                 ELSE family_name \o <<" ">> \o FloatText(plate_info.thickness_mm)
                          \o <<"m", "m">>
             row == Plate(TRUE, plate_info.thickness_mm, plate_info.hardness_shore,
                          plate_info.surface_type, plate_info.imaging_type,
                          family.process_type, supplier_id, display_name,
                          plate_info.sku_code,
                          <<plate_info.main_exposure_min, plate_info.main_exposure_max,
                            plate_info.back_exposure_min, plate_info.back_exposure_max>>)
                    @@ [family_name |-> family.family_name,
                        min_lpi |-> plate_info.min_lpi,
                        max_lpi |-> plate_info.max_lpi,
                        min_dot_percent |-> plate_info.min_dot_percent,
                        max_dot_percent |-> plate_info.max_dot_percent,
                        ink_compatibility |-> plate_info.ink_compatibility,
                        applications |-> plate_info.applications,
                        substrate_categories |-> plate_info.substrate_categories,
                        data_source_url |-> NullText,
                        updated_at |-> time]
         IN [plates |-> Append(tbl, row), id |-> Len(tbl) + 1]

\* store_plate_document: the document of this plate and url if there is
\* one, else a new document, and the plate's data_source_url set if NULL
StorePlateDocument(docs, tbl, plate_id, pdf_url) ==
    LET existing == {d \in docs : d.plate_id = plate_id /\ d.source_url = pdf_url}
    IN IF existing # {}
       THEN [plate_documents |-> docs, plates |-> tbl,
             id |-> (CHOOSE d \in existing : TRUE).id]
       ELSE [plate_documents |->
                 docs \cup {[id |-> Cardinality(docs) + 1, plate_id |-> plate_id,
                             source_url |-> pdf_url]},
             plates |-> IF tbl[plate_id].data_source_url = NullText
                        THEN [tbl EXCEPT ![plate_id].data_source_url = pdf_url]
                        ELSE tbl,
             id |-> Cardinality(docs) + 1]

\* suggest_equivalencies(conn, plate_id) raises over the table tbl: one of
\* its rows (another supplier's active plate within 0.15 mm; fewer than the
\* ten the query keeps) adds a float score to a Decimal one
ImportSuggestRaises(tbl, plate_id, decimal) ==
    \E c \in DOMAIN tbl :
        /\ c # plate_id
        /\ tbl[c].supplier_id # tbl[plate_id].supplier_id
        /\ SqlAbsDiff(tbl[c].thickness_mm, tbl[plate_id].thickness_mm) # NULL
        /\ SqlAbsDiff(tbl[c].thickness_mm, tbl[plate_id].thickness_mm) < 150
        /\ tbl[c].is_active
        /\ CoalescedHardnessDiff(tbl[c].hardness_shore,
                                 tbl[plate_id].hardness_shore) # 0
        /\ MixedTypes(decimal,
                      SuggestThicknessScore(Abs(tbl[c].thickness_mm
                                                  - tbl[plate_id].thickness_mm)),
                      SuggestHardnessScore(
                          CoalescedHardnessDiff(tbl[c].hardness_shore,
                                                tbl[plate_id].hardness_shore)))

\* the tables the importer works on
Db(tbl, sups, docs) == [plates |-> tbl, suppliers |-> sups, plate_documents |-> docs]

-----------------------------------------------------------------------------
(* Data importer: import_from_pdf *)

\* one pass of the loop of import_from_pdf over an extracted plate: the
\* tables afterwards, the result appended, and whether
\* suggest_equivalencies raised
ImportPdfStep(db, plate_info, url, ctx) ==
    LET existing == FindMatchingPlate(db.plates, plate_info, ctx.supplier_id, ctx.order)
        extracted == [name |-> plate_info.plate_name,
                      family |-> plate_info.family_name,
                      thickness |-> plate_info.thickness_mm,
                      hardness |-> plate_info.hardness_shore]
    IN IF existing # NULL
       THEN LET upd == UpdatePlateResult(db.plates, existing, plate_info, ctx.time)
                doc == StorePlateDocument(db.plate_documents, upd.plates, existing, url)
            IN [db |-> Db(doc.plates, db.suppliers, doc.plate_documents),
                raised |-> ImportSuggestRaises(doc.plates, existing, ctx.decimal),
                result |-> [extracted |-> extracted, status |-> "updated",
                            plate_id |-> existing,
                            plate_name |-> db.plates[existing].display_name,
                            updated_fields |-> upd.updated_fields,
                            document_id |-> doc.id]]
       ELSE IF ctx.auto_create_plates
       THEN LET new == CreateNewPlate(db.plates, plate_info, ctx.supplier_id,
                                      ctx.supplier_name, ctx.time)
            IN IF new.id # NULL
               THEN LET doc == StorePlateDocument(db.plate_documents, new.plates,
                                                  new.id, url)
                    IN [db |-> Db(doc.plates, db.suppliers, doc.plate_documents),
                        raised |-> ImportSuggestRaises(doc.plates, new.id, ctx.decimal),
                        result |-> [extracted |-> extracted, status |-> "created",
                                    plate_id |-> new.id,
                                    plate_name |-> plate_info.plate_name,
                                    document_id |-> doc.id]]
               ELSE [db |-> db, raised |-> FALSE,
                     result |-> [extracted |-> extracted, status |-> "skipped"]]
       ELSE [db |-> db, raised |-> FALSE,
             result |-> [extracted |-> extracted, status |-> "no_match"]]

\* the loop of import_from_pdf over the plates still to do
RECURSIVE ImportPdfLoop(_, _, _, _, _)
ImportPdfLoop(db, todo, results, url, ctx) ==
    IF todo = <<>> THEN [db |-> db, raised |-> FALSE, results |-> results]
    ELSE LET step == ImportPdfStep(db, Head(todo), url, ctx)
         IN IF step.raised
            THEN [db |-> step.db, raised |-> TRUE, results |-> results]
            ELSE ImportPdfLoop(step.db, Tail(todo),
                               Append(results, step.result), url, ctx)

\* what a PDF turns out to be: the download or the text extraction raises
\* ("error"), the text has fewer than 50 words ("short"), or the text is
\* read and the plates in `extracted` are extracted from it ("ok")
Pdf(url, outcome, extracted) == [url |-> url, outcome |-> outcome, extracted |-> extracted]

\* POST /from-pdf: the tables afterwards, the response, and the results
\* list as the handler leaves it
ImportFromPdfResult(db, pdf, supplier_name, auto_create_plates, order, decimal, time) ==
    IF pdf.outcome = "error"
    THEN [db |-> db, resp |-> [status |-> 500], results |-> <<>>]
    ELSE IF pdf.outcome = "short"
    THEN [db |-> db, resp |-> [status |-> 400], results |-> <<>>]
    ELSE IF pdf.extracted = <<>>
    THEN [db |-> db, resp |-> [status |-> 200, body |-> "no_plates_found"],
          results |-> <<>>]
    ELSE LET sup == GetOrCreateSupplier(db.suppliers, supplier_name)
             ctx == [supplier_id |-> sup.id, supplier_name |-> supplier_name,
                     auto_create_plates |-> auto_create_plates,
                     order |-> order, decimal |-> decimal, time |-> time]
             loop == ImportPdfLoop(Db(db.plates, sup.suppliers, db.plate_documents),
                                   pdf.extracted, <<>>, pdf.url, ctx)
         IN IF loop.raised
            THEN [db |-> loop.db, resp |-> [status |-> 500],
                  results |-> loop.results]
            ELSE [db |-> loop.db,
                  resp |-> [status |-> 200, body |-> "success",
                            plates_extracted |-> Len(pdf.extracted),
                            results |-> loop.results],
                  results |-> loop.results]

-----------------------------------------------------------------------------
(* Data importer: import_from_download_page and its background task *)

\* one pass of the inner loop of process_all_pdfs over an extracted plate:
\* the tables afterwards and the results appended
PagePlateStep(db, plate_info, url, ctx) ==
    LET existing == FindMatchingPlate(db.plates, plate_info, ctx.supplier_id, ctx.order)
    IN IF existing # NULL
       THEN LET upd == UpdatePlateResult(db.plates, existing, plate_info, ctx.time)
                doc == StorePlateDocument(db.plate_documents, upd.plates, existing, url)
            IN [db |-> Db(doc.plates, db.suppliers, doc.plate_documents),
                appended |-> <<[url |-> url, plate |-> plate_info.plate_name,
                                status |-> "updated", plate_id |-> existing]>>]
       ELSE IF ctx.auto_create_plates
       THEN LET new == CreateNewPlate(db.plates, plate_info, ctx.supplier_id,
                                      ctx.supplier_name, ctx.time)
            IN IF new.id # NULL
               THEN LET doc == StorePlateDocument(db.plate_documents, new.plates,
                                                  new.id, url)
                    IN [db |-> Db(doc.plates, db.suppliers, doc.plate_documents),
                        appended |-> <<[url |-> url, plate |-> plate_info.plate_name,
                                        status |-> "created", plate_id |-> new.id]>>]
               ELSE [db |-> db, appended |-> <<>>]
       ELSE [db |-> db,
             appended |-> <<[url |-> url, plate |-> plate_info.plate_name,
                             status |-> "no_match"]>>]

RECURSIVE PagePlateLoop(_, _, _, _, _)
PagePlateLoop(db, todo, results, url, ctx) ==
    IF todo = <<>> THEN [db |-> db, results |-> results]
    ELSE LET step == PagePlateStep(db, Head(todo), url, ctx)
         IN PagePlateLoop(step.db, Tail(todo), results \o step.appended, url, ctx)

\* the outer loop of process_all_pdfs over the PDF links still to do
RECURSIVE PagePdfLoop(_, _, _, _)
PagePdfLoop(db, pdfs, results, ctx) ==
    IF pdfs = <<>> THEN [db |-> db, results |-> results]
    ELSE LET pdf == Head(pdfs)
         IN IF pdf.outcome = "error"
            THEN PagePdfLoop(db, Tail(pdfs),
                             Append(results, [url |-> pdf.url, status |-> "error"]),
                             ctx)
            ELSE IF pdf.outcome = "short"
            THEN PagePdfLoop(db, Tail(pdfs),
                             Append(results, [url |-> pdf.url, status |-> "skipped",
                                              reason |-> "insufficient_content"]),
                             ctx)
            ELSE IF pdf.extracted = <<>>
            THEN PagePdfLoop(db, Tail(pdfs),
                             Append(results, [url |-> pdf.url,
                                              status |-> "no_plates_found"]),
                             ctx)
            ELSE LET inner == PagePlateLoop(db, pdf.extracted, results, pdf.url, ctx)
                 IN PagePdfLoop(inner.db, Tail(pdfs), inner.results, ctx)

\* POST /from-download-page with the PDF links found on the page, and its
\* background task run to the end: the tables afterwards, the response and
\* the results list of the task
ImportFromDownloadPageResult(db, pdf_links, supplier_name, auto_create_plates, order, time) ==
    IF pdf_links = <<>>
    THEN [db |-> db, resp |-> [status |-> 200, body |-> "no_pdfs_found"],
          results |-> <<>>]
    ELSE LET sup == GetOrCreateSupplier(db.suppliers, supplier_name)
             ctx == [supplier_id |-> sup.id, supplier_name |-> supplier_name,
                     auto_create_plates |-> auto_create_plates,
                     order |-> order, time |-> time]
             loop == PagePdfLoop(Db(db.plates, sup.suppliers, db.plate_documents),
                                 pdf_links, <<>>, ctx)
         IN [db |-> loop.db,
             resp |-> [status |-> 200, body |-> "started",
                       pdfs_found |-> Len(pdf_links)],
             results |-> loop.results]

-----------------------------------------------------------------------------
(* Data importer: specification *)

\* most plates one PDF yields, and most PDF links one page yields
MaxExtracted == 2
MaxPdfs == 2

\* the extracted plates the two import handlers meet: one whose name
\* matches both plates of the first supplier, one matched by family and
\* thickness, one without thickness that matches nothing, one with a
\* thickness no plate has and neither name nor family
ImportInfos ==
    { PlateInfo(<<"A">>, NullText, 1140, 130, rt, NULL, <<"c">>),
      PlateInfo(NullText, <<"F">>, 1145, NULL, NullText, 150, NullText),
      PlateInfo(<<"z">>, NullText, NULL, 130, NullText, NULL, NullText),
      PlateInfo(NullText, NullText, 1700, 130, rt, NULL, NullText) }

\* the sequences over S of length n, and of length at most n
RECURSIVE SeqsOfLen(_, _)
SeqsOfLen(S, n) ==
    IF n = 0 THEN {<<>>}
    ELSE {Append(s, x) : s \in SeqsOfLen(S, n - 1), x \in S}

RECURSIVE SeqsUpTo(_, _)
SeqsUpTo(S, n) == IF n = 0 THEN {<<>>} ELSE SeqsOfLen(S, n) \cup SeqsUpTo(S, n - 1)

ExtractedLists == SeqsUpTo(ImportInfos, MaxExtracted)

\* request.supplier_name: the first supplier in another case, a new one
ImportSuppliers == {<<"a", "B">>, <<"n">>}

\* the url of the k-th PDF
PdfUrl(k) == <<"u", NatText(k)[1]>>

\* what the k-th PDF can turn out to be
PdfsAt(k) ==
    {Pdf(PdfUrl(k), "error", <<>>), Pdf(PdfUrl(k), "short", <<>>)}
        \cup {Pdf(PdfUrl(k), "ok", e) : e \in ExtractedLists}

\* the PDF links of a download page, after pdf_links[:max_pdfs]
RECURSIVE PdfLinksOfLen(_)
PdfLinksOfLen(n) ==
    IF n = 0 THEN {<<>>}
    ELSE {Append(s, p) : s \in PdfLinksOfLen(n - 1), p \in PdfsAt(n)}

PdfLinks == UNION {PdfLinksOfLen(n) : n \in 0..MaxPdfs}

\* the plates table the importer meets: two plates of one family of the
\* first supplier, 10 micrometres apart, and one plate of the second
ImportCatalogs ==
    {<< ImportRow(Plate(TRUE, 1140, h, sf, <<"d">>, "solvent", 1,
                        <<"A", "1">>, NullText, NoEnergies),
                  <<"f">>, lpi, ap),
        ImportRow(Plate(TRUE, 1150, 120, ft, <<"d">>, "solvent", 1,
                        <<"A", "2">>, NullText, NoEnergies),
                  <<"f">>, 100, <<"l">>),
        ImportRow(Plate(TRUE, 1140, 126, ft, <<"d">>, "solvent", 2,
                        <<"b", "3">>, NullText, NoEnergies),
                  <<"g">>, NULL, NullText) >> :
        h \in {NULL, 120}, sf \in {NullText, <<>>, ft},
        lpi \in {NULL, 0}, ap \in {NullText, <<>>, <<"l">>}}

\* the extracted plates update_plate_with_extracted_info is given
UpdateInfos ==
    {PlateInfo(<<"A", "1">>, NullText, 1140, h, sf, lpi, ap) :
        h \in {NULL, 130}, sf \in {NullText, <<>>, rt},
        lpi \in {NULL, 0, 150}, ap \in {NullText, <<>>, <<"c">>}}

\* the wall clock when the importer runs; the rows were last updated at 0
ImportTime == 1

InitImport ==
    /\ plates \in ImportCatalogs
    /\ suppliers = SupplierNames
    /\ InitRequest
    /\ InitImportTables
    /\ InitAccounts
    /\ InitCards
    /\ news_cache = [items |-> <<>>, last_fetch |-> NULL]
    /\ now = ImportTime
    /\ fetches = {}
    /\ InitKnowledge

\* one call of update_plate_with_extracted_info
UpdatePlateWithExtractedInfo ==
    /\ Idle
    /\ \E plate_id \in 1..(Len(plates) + 1), plate_info \in UpdateInfos :
        \E r \in {UpdatePlateResult(plates, plate_id, plate_info, now)} :
           /\ op' = "update_plate_with_extracted_info"
           /\ req' = [plate_id |-> plate_id, plate_info |-> plate_info]
           /\ resp' = [raised |-> r.raised, plate_id |-> plate_id,
                       updated_fields |-> r.updated_fields,
                       fields_count |-> Len(r.updated_fields)]
           /\ locals' = [current |-> IF plate_id \in DOMAIN plates
                                      THEN plates[plate_id] ELSE <<>>]
           /\ plates' = r.plates
           /\ UNCHANGED <<suppliers, storeVars>>

\* POST /from-pdf; the database pool and the OpenAI key are there
ImportFromPdf ==
    /\ Idle
    /\ \E pdf \in PdfsAt(1), supplier_name \in ImportSuppliers,
          auto_create_plates \in BOOLEAN, decimal \in BOOLEAN,
          order \in Orderings(DOMAIN plates) :
        \E r \in {ImportFromPdfResult(Db(plates, suppliers, plate_documents), pdf,
                                      supplier_name, auto_create_plates,
                                      order, decimal, now)} :
           /\ op' = "import_from_pdf"
           /\ req' = [url |-> pdf.url, supplier_name |-> supplier_name,
                      auto_create_plates |-> auto_create_plates]
           /\ resp' = r.resp
           /\ locals' = [pdf_links |-> <<pdf>>, results |-> r.results]
           /\ plates' = r.db.plates
           /\ suppliers' = r.db.suppliers
           /\ plate_documents' = r.db.plate_documents
           /\ UNCHANGED <<accountVars, cardVars, newsVars, knowledgeVars>>

\* POST /from-download-page and its background task
ImportFromDownloadPage ==
    /\ Idle
    /\ \E pdf_links \in PdfLinks, supplier_name \in ImportSuppliers,
          auto_create_plates \in BOOLEAN, order \in Orderings(DOMAIN plates) :
        \E r \in {ImportFromDownloadPageResult(Db(plates, suppliers, plate_documents),
                                               pdf_links, supplier_name,
                                               auto_create_plates, order, now)} :
           /\ op' = "import_from_download_page"
           /\ req' = [supplier_name |-> supplier_name,
                      auto_create_plates |-> auto_create_plates]
           /\ resp' = r.resp
           /\ locals' = [pdf_links |-> pdf_links, results |-> r.results]
           /\ plates' = r.db.plates
           /\ suppliers' = r.db.suppliers
           /\ plate_documents' = r.db.plate_documents
           /\ UNCHANGED <<accountVars, cardVars, newsVars, knowledgeVars>>

\* update_plate_with_extracted_info called on its own
UpdateSpec == InitImport /\ [][UpdatePlateWithExtractedInfo]_vars

NextImport == ImportFromPdf \/ ImportFromDownloadPage

\* the import handlers meet the catalogs whose first plate has no min_lpi
InitImportHandlers ==
    /\ InitImport
    /\ plates[1].min_lpi = NULL

\* the two import handlers
ImportSpec == InitImportHandlers /\ [][NextImport]_vars

-----------------------------------------------------------------------------
(* C24 *)

\* the columns update_plate_with_extracted_info may fill
FillableColumns ==
    {ScalarColumns[i] : i \in DOMAIN ScalarColumns}
        \cup {ArrayColumns[i] : i \in DOMAIN ArrayColumns}

\* a stored value that is null or empty
StoredBlank(column, x) ==
    IF column \in FillableColumns
          /\ column \notin TextColumns
          /\ column \notin {ArrayColumns[i] : i \in DOMAIN ArrayColumns}
    THEN x = NULL
    ELSE x = NullText \/ x = <<>>

\* a value was extracted for the column
ExtractedPresent(column, plate_info) ==
    IF column \in TextColumns \cup {ArrayColumns[i] : i \in DOMAIN ArrayColumns}
    THEN plate_info[InfoField(column)] # NullText
    ELSE plate_info[InfoField(column)] # NULL

\* C24: a call of update_plate_with_extracted_info changes a column of the
\* plate only if a value was extracted for it and the stored value was null
\* or empty, and then to the extracted value; a column that held a
\* non-empty value, every other column and every other plate stay as they
\* were; when no column has both an extracted value and a null or empty
\* stored value the table is left untouched, updated_at included.
C24_FillsOnlyGaps ==
    [][(op' = "update_plate_with_extracted_info" /\ req'.plate_id \in DOMAIN plates) =>
          LET id == req'.plate_id
              plate_info == req'.plate_info
              before == plates[id]
              after == plates'[id]
              gaps == {c \in FillableColumns :
                          ExtractedPresent(c, plate_info) /\ StoredBlank(c, before[c])}
          IN /\ DOMAIN plates' = DOMAIN plates
             /\ \A n \in DOMAIN plates : n # id => plates'[n] = plates[n]
             /\ \A c \in DOMAIN before :
                   after[c] # before[c] =>
                       \/ c = "updated_at"
                       \/ c \in gaps /\ after[c] = plate_info[InfoField(c)]
             /\ \A c \in FillableColumns :
                   ~StoredBlank(c, before[c]) => after[c] = before[c]
             /\ gaps = {} => plates' = plates]_vars

\* a call that filled one column and left another alone although a value
\* was extracted for it, because that one held a value already
C24_Witness ==
    /\ op = "update_plate_with_extracted_info"
    /\ ~resp.raised
    /\ resp.updated_fields # <<>>
    /\ \E c \in FillableColumns :
          /\ ExtractedPresent(c, req.plate_info)
          /\ ~StoredBlank(c, locals.current[c])
          /\ plates[req.plate_id][c] = locals.current[c]
          /\ plates[req.plate_id][c] # req.plate_info[InfoField(c)]

-----------------------------------------------------------------------------
(* C30 *)

\* the four outcomes of an extracted plate
PlateStatuses == {"updated", "created", "skipped", "no_match"}

\* the entries of the results list that stand for plates of the PDF at url:
\* import_from_pdf makes no other entries; in the background task an entry
\* for a plate carries the plate's name
PlateEntries(url) ==
    IF op = "import_from_pdf" THEN locals.results
    ELSE SelectSeq(locals.results,
                   LAMBDA e : e.url = url /\ "plate" \in DOMAIN e)

\* C30: when an import has ended, every PDF from which plates were
\* extracted has, for each of its plates in turn, exactly one result entry,
\* whose status is updated, created, skipped or no_match.
C30_OneOutcomePerPlate ==
    op \in {"import_from_pdf", "import_from_download_page"} =>
        \A k \in DOMAIN locals.pdf_links :
            LET pdf == locals.pdf_links[k]
                entries == PlateEntries(pdf.url)
            IN pdf.outcome = "ok" =>
                  /\ Len(entries) = Len(pdf.extracted)
                  /\ \A i \in DOMAIN entries : entries[i].status \in PlateStatuses

-----------------------------------------------------------------------------
(* Accounts (main.py): favourite plates, equipment and recipes of a user.  *)
(* An add handler awaits the database twice, for the COUNT and for the     *)
(* INSERT, and other requests run in between: each is two steps.  A        *)
(* removal is one statement.  The three resources share no table, so a     *)
(* behaviour works on one of them.                                          *)

\* the defaults of "user.get('max_plates') or 5", "... 'max_equipment') or
\* 2" and "... 'max_recipes') or 5"
DefaultMaxPlates == 5
DefaultMaxEquipment == 2
DefaultMaxRecipes == 5

\* add requests in flight at once, and rows of user_equipment and of
\* saved_recipes the model lets the tables grow to
MaxCalls == 2
MaxRows == 2

\* the users table: A on explicit limits of one, B on the defaults
AccountUsers ==
    [u \in {"A", "B"} |->
        IF u = "A"
        THEN [id |-> u, max_plates |-> 1, max_equipment |-> 1, max_recipes |-> 1,
              user_tier |-> "free"]
        ELSE [id |-> u, max_plates |-> NULL, max_equipment |-> NULL,
              max_recipes |-> NULL, user_tier |-> "premium"]]

\* plate ids a favourite request carries
FavoriteIds == {IdString("canon", 1), IdString("canon", 2), IdString("bad", 0)}

\* "SELECT COUNT(*) FROM user_favorite_plates WHERE user_id = $1"
FavoriteCount(u) == Cardinality({f \in user_favorite_plates : f.user_id = u})

\* "SELECT COUNT(*) FROM <table> WHERE user_id = $1 AND is_active = TRUE"
ActiveCount(tbl, u) == Cardinality({r \in tbl : r.user_id = u /\ r.is_active})

\* a handler that has its user row and its count and awaits the INSERT
Call(slot, kind, user, arg, count) ==
    [slot |-> slot, kind |-> kind, user |-> user, arg |-> arg, count |-> count]

FreeSlots == (1..MaxCalls) \ {c.slot : c \in calls}

\* nothing was done yet but on the favourites, the equipment, the recipes
OnFavorites ==
    /\ user_equipment = {} /\ saved_recipes = {}
    /\ \A c \in calls : c.kind = "add_favorite_plate"
OnEquipment ==
    /\ user_favorite_plates = {} /\ saved_recipes = {}
    /\ \A c \in calls : c.kind = "add_my_equipment"
OnRecipes ==
    /\ user_favorite_plates = {} /\ user_equipment = {}
    /\ \A c \in calls : c.kind = "save_recipe"

\* a handler runs up to its COUNT
BeginCall(kind, u, arg, count) ==
    /\ FreeSlots # {}
    /\ calls' = calls \cup {Call(CHOOSE s \in FreeSlots : TRUE, kind, users[u],
                                 arg, count)}
    /\ UNCHANGED <<coreVars, importVars, users, user_favorite_plates,
                   user_equipment, saved_recipes, cardVars, newsVars, knowledgeVars>>

\* a handler answers
Answer(c, name, status) ==
    /\ calls' = calls \ {c}
    /\ op' = name
    /\ req' = [user |-> c.user.id, arg |-> c.arg]
    /\ resp' = [status |-> status]
    /\ locals' = NoLocals
    /\ UNCHANGED <<plates, suppliers, importVars, users, cardVars, newsVars,
                   knowledgeVars>>

\* POST /api/me/plates/{plate_id}, to the COUNT
AddFavoritePlateCount ==
    /\ OnFavorites
    /\ \E u \in DOMAIN users, plate_id \in FavoriteIds :
        BeginCall("add_favorite_plate", u, plate_id, FavoriteCount(u))

\* POST /api/me/plates/{plate_id}, from the limit test on: 403, or
\* "INSERT ... ON CONFLICT (user_id, plate_id) DO NOTHING"
AddFavoritePlateInsert ==
    \E c \in calls :
        /\ c.kind = "add_favorite_plate"
        /\ IF c.count >= OrDefault(c.user.max_plates, DefaultMaxPlates)
           THEN /\ Answer(c, "add_favorite_plate", 403)
                /\ UNCHANGED <<user_favorite_plates, user_equipment, saved_recipes>>
           ELSE IF ~UuidParses(c.arg)
           THEN /\ Answer(c, "add_favorite_plate", 500)
                /\ UNCHANGED <<user_favorite_plates, user_equipment, saved_recipes>>
           ELSE /\ Answer(c, "add_favorite_plate", 200)
                /\ user_favorite_plates' =
                      user_favorite_plates
                          \cup {[user_id |-> c.user.id, plate_id |-> UuidOf(c.arg)]}
                /\ UNCHANGED <<user_equipment, saved_recipes>>

\* DELETE /api/me/plates/{plate_id}
RemoveFavoritePlate ==
    /\ OnFavorites
    /\ \E u \in DOMAIN users, plate_id \in FavoriteIds :
        /\ op' = "remove_favorite_plate"
        /\ req' = [user |-> u, arg |-> plate_id]
        /\ locals' = NoLocals
        /\ IF ~UuidParses(plate_id)
           THEN resp' = [status |-> 500] /\ UNCHANGED user_favorite_plates
           ELSE /\ resp' = [status |-> 200]
                /\ user_favorite_plates' =
                      {f \in user_favorite_plates :
                          ~(f.user_id = u /\ f.plate_id = UuidOf(plate_id))}
        /\ UNCHANGED <<plates, suppliers, importVars, users, user_equipment,
                       saved_recipes, calls, cardVars, newsVars, knowledgeVars>>

\* the row an add handler inserts: a fresh id, is_active TRUE
NewRow(tbl, u) == [id |-> Cardinality(tbl) + 1, user_id |-> u, is_active |-> TRUE]

\* the same without the owner in the WHERE clause
DeactivateAnyOwner(tbl, id, u) ==
    {IF r.id = id THEN [r EXCEPT !.is_active = FALSE] ELSE r : r \in tbl}

\* "UPDATE <table> SET is_active = FALSE WHERE id = $1 AND user_id = $2"
Deactivate(tbl, id, u) ==
    {IF r.id = id /\ r.user_id = u THEN [r EXCEPT !.is_active = FALSE] ELSE r :
        r \in tbl}

\* POST /api/me/equipment, to the COUNT
AddMyEquipmentCount ==
    /\ OnEquipment
    /\ \E u \in DOMAIN users :
        BeginCall("add_my_equipment", u, <<>>, ActiveCount(user_equipment, u))

\* POST /api/me/equipment, from the limit test on
AddMyEquipmentInsert ==
    \E c \in calls :
        /\ c.kind = "add_my_equipment"
        /\ IF c.count >= OrDefault(c.user.max_equipment, DefaultMaxEquipment)
           THEN /\ Answer(c, "add_my_equipment", 403)
                /\ UNCHANGED <<user_favorite_plates, user_equipment, saved_recipes>>
           ELSE /\ Cardinality(user_equipment) < MaxRows
                /\ Answer(c, "add_my_equipment", 200)
                /\ user_equipment' =
                      user_equipment \cup {NewRow(user_equipment, c.user.id)}
                /\ UNCHANGED <<user_favorite_plates, saved_recipes>>

\* ids a removal request carries: those of the rows, and one of no row
RowIds == 1..(MaxRows + 1)

\* DELETE /api/me/equipment/{equipment_id}
RemoveMyEquipment ==
    /\ OnEquipment
    /\ \E u \in DOMAIN users, equipment_id \in RowIds :
        /\ op' = "remove_my_equipment"
        /\ req' = [user |-> u, arg |-> equipment_id]
        /\ resp' = [status |-> 200]
        /\ locals' = NoLocals
        /\ user_equipment' = Deactivate(user_equipment, equipment_id, u)
        /\ UNCHANGED <<plates, suppliers, importVars, users, user_favorite_plates,
                       saved_recipes, calls, cardVars, newsVars, knowledgeVars>>

\* POST /api/me/recipes, to the COUNT
SaveRecipeCount ==
    /\ OnRecipes
    /\ \E u \in DOMAIN users :
        BeginCall("save_recipe", u, <<>>, ActiveCount(saved_recipes, u))

\* POST /api/me/recipes, from the limit test on
SaveRecipeInsert ==
    \E c \in calls :
        /\ c.kind = "save_recipe"
        /\ IF c.count >= OrDefault(c.user.max_recipes, DefaultMaxRecipes)
           THEN /\ Answer(c, "save_recipe", 403)
                /\ UNCHANGED <<user_favorite_plates, user_equipment, saved_recipes>>
           ELSE /\ Cardinality(saved_recipes) < MaxRows
                /\ Answer(c, "save_recipe", 200)
                /\ saved_recipes' = saved_recipes \cup {NewRow(saved_recipes, c.user.id)}
                /\ UNCHANGED <<user_favorite_plates, user_equipment>>

\* DELETE /api/me/recipes/{recipe_id}
DeleteRecipe ==
    /\ OnRecipes
    /\ \E u \in DOMAIN users, recipe_id \in RowIds :
        /\ op' = "delete_recipe"
        /\ req' = [user |-> u, arg |-> recipe_id]
        /\ resp' = [status |-> 200]
        /\ locals' = NoLocals
        /\ saved_recipes' = Deactivate(saved_recipes, recipe_id, u)
        /\ UNCHANGED <<plates, suppliers, importVars, users, user_favorite_plates,
                       user_equipment, calls, cardVars, newsVars, knowledgeVars>>

InitAccountSpec ==
    /\ plates = Catalog
    /\ suppliers = SupplierNames
    /\ InitRequest
    /\ InitImportTables
    /\ users = AccountUsers
    /\ user_favorite_plates = {}
    /\ user_equipment = {}
    /\ saved_recipes = {}
    /\ calls = {}
    /\ InitCards
    /\ InitNews
    /\ InitKnowledge

NextAccount ==
    \/ AddFavoritePlateCount
    \/ AddFavoritePlateInsert
    \/ RemoveFavoritePlate
    \/ AddMyEquipmentCount
    \/ AddMyEquipmentInsert
    \/ RemoveMyEquipment
    \/ SaveRecipeCount
    \/ SaveRecipeInsert
    \/ DeleteRecipe

AccountSpec == InitAccountSpec /\ [][NextAccount]_vars

-----------------------------------------------------------------------------
(* C25 *)

\* C25: at every moment each user has at most max_plates (default 5)
\* favourite plates, at most max_equipment (default 2) active equipment
\* and at most max_recipes (default 5) active recipes, whatever adds and
\* removals ran and however the adds of one user interleaved.
C25_QuotaNeverExceeded ==
    \A u \in DOMAIN users :
        /\ FavoriteCount(u)
              <= (IF users[u].max_plates = NULL THEN 5 ELSE users[u].max_plates)
        /\ ActiveCount(user_equipment, u)
              <= (IF users[u].max_equipment = NULL THEN 2 ELSE users[u].max_equipment)
        /\ ActiveCount(saved_recipes, u)
              <= (IF users[u].max_recipes = NULL THEN 5 ELSE users[u].max_recipes)

-----------------------------------------------------------------------------
(* C26 *)

\* the rows of a table that belong to other users than u
OthersRows(tbl, u) == {r \in tbl : r.user_id # u}

\* C26: a step that serves remove_favorite_plate, remove_my_equipment or
\* delete_recipe for a user leaves the favourites, the equipment and the
\* recipes of every other user as they were, whatever id it was given.
C26_OwnershipIsolation ==
    [][(op' \in {"remove_favorite_plate", "remove_my_equipment", "delete_recipe"}
            /\ calls' = calls) =>
          /\ OthersRows(user_favorite_plates', req'.user)
                = OthersRows(user_favorite_plates, req'.user)
          /\ OthersRows(user_equipment', req'.user)
                = OthersRows(user_equipment, req'.user)
          /\ OthersRows(saved_recipes', req'.user)
                = OthersRows(saved_recipes, req'.user)]_vars

\* a removal was served whose id is that of another user's active row: a
\* favourite of the same plate, or an equipment or recipe row
C26_Witness ==
    \/ /\ op = "remove_favorite_plate"
       /\ resp.status = 200
       /\ \E f \in user_favorite_plates :
             f.user_id # req.user /\ f.plate_id = UuidOf(req.arg)
    \/ /\ op = "remove_my_equipment"
       /\ \E r \in user_equipment :
             r.id = req.arg /\ r.user_id # req.user /\ r.is_active
    \/ /\ op = "delete_recipe"
       /\ \E r \in saved_recipes :
             r.id = req.arg /\ r.user_id # req.user /\ r.is_active

-----------------------------------------------------------------------------
(* Reference cards (main.py): get_reference_cards behind                   *)
(* get_current_user_optional.  A Python value that may be None, True or    *)
(* False is held as "None", "True" or "False".                             *)

\* "x and y" and "not x" over None / True / False
PyAnd(x, y) == IF x = "True" THEN y ELSE x
PyNot(x) == IF x = "True" THEN "False" ELSE "True"

\* what the Authorization header carries: nothing, a token that does not
\* decode, or a token whose subject is the named user id
Credentials == {"none", "bad_token", "A", "B", "C", "Z"}

\* the users table behind the tokens: no row for Z
CardUsers ==
    [u \in {"A", "B", "C"} |->
        [id |-> u, max_plates |-> NULL, max_equipment |-> NULL, max_recipes |-> NULL,
         user_tier |-> CASE u = "A" -> "free" [] u = "B" -> "premium"
                         [] OTHER -> "Premium"]]

\* the None that stands for no user
NoUser == [id |-> "None"]

\* get_current_user_optional: the user's row, or None
GetCurrentUserOptional(credentials) ==
    IF credentials \in {"none", "bad_token"} THEN NoUser
    ELSE IF credentials \in DOMAIN users THEN users[credentials]
    ELSE NoUser

\* every user who is logged in counts as premium
IsPremiumLoggedIn(user) == IF user = NoUser THEN "None" ELSE "True"

\* "user and user.get('user_tier') == 'premium'"
IsPremium(user) ==
    IF user = NoUser THEN "None"
    ELSE IF user.user_tier = "premium" THEN "True" ELSE "False"

\* the text a locked card carries
PremiumPlaceholder == <<"Premium content - upgrade to view">>

\* one row of the response
CardEntry(row, is_premium) ==
    LET locked == PyAnd(row.is_premium, PyNot(is_premium))
    IN [id |-> row.id, category |-> row.category,
        display_order |-> row.display_order, title |-> row.title,
        is_premium |-> row.is_premium, locked |-> locked,
        content |-> IF locked = "True" THEN PremiumPlaceholder ELSE row.content]

\* the rows of the query: all of them or those of the category, by
\* display_order, then by title (one letter: its place in the alphabet)
CardRowOrders(category) ==
    LET rows == {n \in DOMAIN reference_cards :
                    TruthyText(category) => reference_cards[n].category = category}
        K1 == [n \in rows |-> reference_cards[n].display_order]
        K2 == [n \in rows |->
                  CHOOSE k \in 1..3 : <<"a", "b", "c">>[k] = reference_cards[n].title]
    IN OrderedBy(rows, K1, K2)

\* GET /api/reference-cards, the rows arriving in the order `rows`
GetReferenceCardsResult(user, rows) ==
    [status |-> 200,
     cards |-> [i \in DOMAIN rows |-> CardEntry(reference_cards[rows[i]], IsPremium(user))]]

\* a quick_reference_cards row
Card(id, category, display_order, title, is_premium) ==
    [id |-> id, category |-> category, display_order |-> display_order,
     title |-> title, is_premium |-> is_premium,
     content |-> <<"content of card">> \o NatText(id)]

\* the tables the handler meets: three cards, each marked premium, marked
\* free, or unmarked
CardTables ==
    {<< Card(1, <<"x">>, 1, "b", p1), Card(2, <<"x">>, 1, "a", p2),
        Card(3, <<"y">>, 2, "c", p3) >> :
        p1 \in {"True", "False", "None"}, p2 \in {"True", "False", "None"},
        p3 \in {"True", "False", "None"}}

GetReferenceCards ==
    /\ Idle
    /\ \E credentials \in Credentials, category \in {NullText, <<>>, <<"x">>, <<"X">>} :
        \E user \in {GetCurrentUserOptional(credentials)} :
          \E rows \in CardRowOrders(IF category = NullText THEN <<>> ELSE category) :
             /\ op' = "get_reference_cards"
             /\ req' = [credentials |-> credentials, category |-> category]
             /\ resp' = GetReferenceCardsResult(user, rows)
             /\ locals' = [user |-> user]
             /\ UNCHANGED <<plates, suppliers, storeVars>>

InitCardSpec ==
    /\ plates = Catalog
    /\ suppliers = SupplierNames
    /\ InitRequest
    /\ InitImportTables
    /\ users = CardUsers
    /\ user_favorite_plates = {}
    /\ user_equipment = {}
    /\ saved_recipes = {}
    /\ calls = {}
    /\ reference_cards \in CardTables
    /\ InitNews
    /\ InitKnowledge

CardSpec == InitCardSpec /\ [][GetReferenceCards]_vars

-----------------------------------------------------------------------------
(* C27 *)

\* the caller is a user whose tier is 'premium'
PremiumCaller ==
    /\ req.credentials \in DOMAIN users
    /\ users[req.credentials].user_tier = "premium"

\* the stored card a returned entry stands for
StoredCard(e) == reference_cards[CHOOSE n \in DOMAIN reference_cards :
                                    reference_cards[n].id = e.id]

\* C27: in every answer of get_reference_cards to an anonymous caller or to
\* a user whose tier is not 'premium', each card marked is_premium comes
\* with locked true and the upgrade placeholder in place of its content; in
\* every answer to a premium user no card is locked and each carries its
\* own content.
C27_PremiumGating ==
    op = "get_reference_cards" =>
        \A i \in DOMAIN resp.cards :
            LET e == resp.cards[i]
                card == StoredCard(e)
            IN /\ (~PremiumCaller /\ card.is_premium = "True") =>
                      /\ e.locked = "True"
                      /\ e.content = PremiumPlaceholder
                      /\ e.content # card.content
               /\ PremiumCaller =>
                      /\ e.locked # "True"
                      /\ e.content = card.content

\* a logged-in user on the free tier was answered with a premium card
C27_Witness ==
    /\ op = "get_reference_cards"
    /\ req.credentials \in DOMAIN users
    /\ ~PremiumCaller
    /\ \E i \in DOMAIN resp.cards : StoredCard(resp.cards[i]).is_premium = "True"

-----------------------------------------------------------------------------
(* news aggregator: the in-memory cache of get_news and refresh_news *)

\* _news_cache["cache_duration_minutes"]
CacheDurationMinutes == 30

\* the latest reading of the clock, in minutes, and the number of requests
\* that may wait for the feeds at the same time
MaxTime == 60
MaxFetches == 2

\* a NewsItem, reduced to the fields get_news reads; relevance_score in
\* hundredths
NewsItem(id, category, relevance_score) ==
    [id |-> id, category |-> category, relevance_score |-> relevance_score]

\* get_fallback_news: the fixed list served when the feeds yield nothing
FallbackNews ==
    << NewsItem(<<"f", "1">>, <<"i">>, 90), NewsItem(<<"f", "2">>, <<"l">>, 85) >>

\* what the feeds can yield once scored, de-duplicated and sorted
FeedOutcomes ==
    { <<>>,
      << NewsItem(<<"n", "1">>, <<"l">>, 60), NewsItem(<<"n", "2">>, <<"i">>, 20) >>,
      << NewsItem(<<"n", "3">>, <<"i">>, 40) >> }

\* fetch_all_feeds: the feeds' items, or the fallback news when there are none
FetchAllFeeds(news_items) ==
    IF Len(news_items) = 0 THEN FallbackNews ELSE news_items

\* the mutant of CacheValid: a cache of exactly cache_duration_minutes
\* still counts as fresh
CacheValidInclusive(cache, time) ==
    /\ cache.last_fetch # NULL
    /\ time - cache.last_fetch <= CacheDurationMinutes
    /\ Len(cache.items) > 0

\* cache_valid of get_news, read at clock time
CacheValid(cache, time) ==
    /\ cache.last_fetch # NULL
    /\ time - cache.last_fetch < CacheDurationMinutes
    /\ Len(cache.items) > 0

\* [i for i in items if i.category == category]
RECURSIVE OfCategory(_, _)
OfCategory(items, category) ==
    IF items = <<>> THEN <<>>
    ELSE (IF Head(items).category = category THEN <<Head(items)>> ELSE <<>>)
         \o OfCategory(Tail(items), category)

\* [i for i in items if i.relevance_score >= min_relevance]
RECURSIVE AtLeastRelevant(_, _)
AtLeastRelevant(items, min_relevance) ==
    IF items = <<>> THEN <<>>
    ELSE (IF Head(items).relevance_score >= min_relevance THEN <<Head(items)>> ELSE <<>>)
         \o AtLeastRelevant(Tail(items), min_relevance)

\* the filters and the limit of get_news, in the order of the source
FilteredItems(items, r) ==
    LET by_category == IF r.category # NullText /\ r.category # <<>>
                       THEN OfCategory(items, r.category) ELSE items
        by_relevance == IF r.min_relevance > 0
                        THEN AtLeastRelevant(by_category, r.min_relevance)
                        ELSE by_category
    IN SliceTo(by_relevance, r.limit)

\* the NewsResponse built from the cache; last_updated is the time of the
\* last fetch, which the source sends as ISO text
NewsResponse(cache, r) ==
    LET filtered_items == FilteredItems(cache.items, r)
    IN [status |-> 200, items |-> filtered_items, total |-> Len(filtered_items),
        last_updated |-> cache.last_fetch]

\* the query parameters of get_news
NewsRequests ==
    { [category |-> NullText, limit |-> 50, min_relevance |-> 0],
      [category |-> <<"i">>, limit |-> 1, min_relevance |-> 0],
      [category |-> NullText, limit |-> 50, min_relevance |-> 50] }

\* the smallest slot no waiting request holds
FreeFetchSlot ==
    CHOOSE n \in 1..(MaxFetches + 1) :
        /\ \A f \in fetches : f.slot # n
        /\ \A m \in 1..(n - 1) : \E f \in fetches : f.slot = m

\* the clock advances, by one minute less than the cache duration or by the
\* cache duration; datetime.now() never runs backwards here
Tick ==
    /\ \E d \in {CacheDurationMinutes - 1, CacheDurationMinutes} :
          /\ now + d <= MaxTime
          /\ now' = now + d
    /\ UNCHANGED <<coreVars, importVars, accountVars, cardVars, knowledgeVars,
                   news_cache, fetches>>

\* GET /api/news up to its await: a valid cache is answered at once, an
\* invalid one makes the request wait for fetch_all_feeds
GetNews ==
    \E r \in NewsRequests :
        LET cache_valid == CacheValid(news_cache, now)
        IN IF cache_valid
           THEN /\ op' = "get_news"
                /\ req' = r
                /\ resp' = NewsResponse(news_cache, r)
                /\ locals' = [cache_valid |-> TRUE, now |-> now, items |-> <<>>]
                /\ UNCHANGED <<plates, suppliers, importVars, accountVars, cardVars,
                               knowledgeVars, newsVars>>
           ELSE /\ Cardinality(fetches) < MaxFetches
                /\ fetches' = fetches \cup
                       {[slot |-> FreeFetchSlot, op |-> "get_news", req |-> r]}
                /\ UNCHANGED <<coreVars, importVars, accountVars, cardVars,
                               knowledgeVars, news_cache, now>>

\* GET /api/news from the return of fetch_all_feeds on: the cache takes the
\* items and the time of this moment, and the answer is built from it
GetNewsFetched ==
    \E f \in fetches : \E outcome \in FeedOutcomes :
        LET items == FetchAllFeeds(outcome)
            cache == [items |-> items, last_fetch |-> now]
        IN /\ f.op = "get_news"
           /\ news_cache' = cache
           /\ fetches' = fetches \ {f}
           /\ op' = "get_news"
           /\ req' = f.req
           /\ resp' = NewsResponse(cache, f.req)
           /\ locals' = [cache_valid |-> FALSE, now |-> now, items |-> items]
           /\ UNCHANGED <<plates, suppliers, importVars, accountVars, cardVars,
                          knowledgeVars, now>>

\* POST /api/news/refresh up to its await: it always fetches
RefreshNews ==
    /\ Cardinality(fetches) < MaxFetches
    /\ fetches' = fetches \cup
           {[slot |-> FreeFetchSlot, op |-> "refresh_news", req |-> <<>>]}
    /\ UNCHANGED <<coreVars, importVars, accountVars, cardVars, knowledgeVars,
                   news_cache, now>>

\* POST /api/news/refresh from the return of fetch_all_feeds on
RefreshNewsFetched ==
    \E f \in fetches : \E outcome \in FeedOutcomes :
        LET items == FetchAllFeeds(outcome)
        IN /\ f.op = "refresh_news"
           /\ news_cache' = [items |-> items, last_fetch |-> now]
           /\ fetches' = fetches \ {f}
           /\ op' = "refresh_news"
           /\ req' = f.req
           /\ resp' = [status |-> 200, message |-> "News refreshed",
                       items_count |-> Len(items), timestamp |-> now]
           /\ locals' = [cache_valid |-> FALSE, now |-> now, items |-> items]
           /\ UNCHANGED <<plates, suppliers, importVars, accountVars, cardVars,
                          knowledgeVars, now>>

InitNewsSpec ==
    /\ plates = Catalog
    /\ suppliers = SupplierNames
    /\ InitRequest
    /\ InitStores

NextNews ==
    \/ Tick
    \/ GetNews
    \/ GetNewsFetched
    \/ RefreshNews
    \/ RefreshNewsFetched

NewsSpec == InitNewsSpec /\ [][NextNews]_vars

-----------------------------------------------------------------------------
(* C28: freshness of the news cache *)

\* the cache was never filled, is empty, or was fetched 30 minutes ago or
\* earlier
CacheOld ==
    \/ news_cache.last_fetch = NULL
    \/ news_cache.items = <<>>
    \/ now - news_cache.last_fetch >= 30

\* a get_news arrives in this step and starts to wait for the feeds
GetNewsRefetches == \E f \in fetches' \ fetches : f.op = "get_news"

\* a get_news arrives in this step and is answered without a fetch
GetNewsServed ==
    /\ op' = "get_news"
    /\ fetches' = fetches
    /\ now' = now
    /\ locals'.cache_valid

\* a fetch_all_feeds of get_news or refresh_news returns in this step
FetchReturns == \E f \in fetches : fetches' = fetches \ {f}

\* C28: a get_news refetches exactly when the cache was never filled, is
\* empty, or its last_fetch is 30 minutes old or more; otherwise it serves the
\* cached items, filtered by its parameters, and leaves the cache alone; and
\* the cache changes only when a fetch returns, which sets items to the
\* fetched items and last_fetch to the time of that moment in one step
C28_CacheFreshness ==
    [][ /\ GetNewsRefetches => CacheOld
        /\ GetNewsServed =>
              /\ ~CacheOld
              /\ news_cache' = news_cache
              /\ resp'.items = FilteredItems(news_cache.items, req')
              /\ resp'.last_updated = news_cache.last_fetch
        /\ FetchReturns =>
              /\ news_cache'.items = locals'.items
              /\ news_cache'.items # <<>>
              /\ news_cache'.last_fetch = now
        /\ news_cache' # news_cache => FetchReturns ]_vars

\* C28 witness: after a refetch, a get_news that arrived 29 minutes after
\* it has just been answered with items from the cache
C28_Witness ==
    /\ op = "get_news"
    /\ locals.cache_valid
    /\ news_cache.last_fetch > 0
    /\ locals.now - news_cache.last_fetch = CacheDurationMinutes - 1
    /\ now = locals.now
    /\ resp.items # <<>>
    /\ resp.items = FilteredItems(news_cache.items, req)

-----------------------------------------------------------------------------
(* knowledge base: store_document of the scraper and store_knowledge of the
   loader, each run from its SELECT to its return before the next call *)

\* the contents stored: texts of whole sentences, the empty text among them
Contents == { <<>>, <<"a", ".">>, <<"a", ".", "b", ".">> }

\* the titles the documents are stored under
Titles == { <<"t">>, <<"u">> }

\* content_hash: the SHA-256 digest of the content, written as the text that
\* stands for the digest of exactly that content
ContentHash(content) == <<"#">> \o content

\* str(id) of a document id
DocumentIdText(id) == NatText(id)

\* chunk_text: one chunk per sentence here, numbered from 0
RECURSIVE ChunkText(_, _)
ChunkText(content, index) ==
    IF Len(content) < 2 THEN <<>>
    ELSE <<[index |-> index, text |-> SubSeq(content, 1, 2), tokens |-> 2]>>
         \o ChunkText(SubSeq(content, 3, Len(content)), index + 1)

\* the mutant of ExistingDocuments: the duplicate check finds nothing
ExistingDocumentsNone(documents, hash_val) == {}

\* SELECT id FROM knowledge_documents WHERE content_hash = $1
ExistingDocuments(documents, hash_val) ==
    { d \in documents : d.content_hash = hash_val }

\* the id the INSERT ... RETURNING id gives to a new document
NewDocumentId(documents) == Cardinality(documents) + 1

\* the row of a new document; last_scraped_at is NULL when the INSERT does not
\* name the column
DocumentRow(id, title, content, source_type, last_scraped_at) ==
    [id |-> id, title |-> title, content |-> content,
     content_hash |-> ContentHash(content), source_type |-> source_type,
     word_count |-> Len(content) \div 2, last_scraped_at |-> last_scraped_at]

\* one row of knowledge_chunks
ChunkRow(doc_id, chunk, embedded) ==
    [document_id |-> doc_id, chunk_index |-> chunk.index,
     chunk_text |-> chunk.text, chunk_tokens |-> chunk.tokens,
     embedded |-> embedded]

\* the outcomes of storing chunks with embeddings: NULL when every INSERT
\* went through, or the number of INSERTs done before an exception
EmbeddingOutcomes(chunks) == {NULL} \cup 0..Len(chunks)

\* the chunk rows written for a new document: without embeddings when the
\* embedding column is missing; with embeddings otherwise; and when that
\* raised, the rows written before the exception plus every chunk again
\* without its embedding
StoredChunks(doc_id, chunks, has_vector, outcome) ==
    LET plain == { ChunkRow(doc_id, chunks[i], FALSE) : i \in DOMAIN chunks }
        embedded(k) == { ChunkRow(doc_id, chunks[i], TRUE) : i \in 1..k }
    IN IF ~has_vector THEN plain
       ELSE IF outcome = NULL THEN embedded(Len(chunks))
       ELSE embedded(outcome) \cup plain

\* store_document of knowledge_scraper.py
StoreDocument ==
    \E title \in Titles : \E content \in Contents : \E has_vector \in BOOLEAN :
        LET hash_val == ContentHash(content)
            found == ExistingDocuments(knowledge_documents, hash_val)
            chunks == ChunkText(content, 0)
            doc_id == NewDocumentId(knowledge_documents)
        IN /\ op' = "store_document"
           /\ req' = [title |-> title, content |-> content]
           /\ locals' = [hash_val |-> hash_val, chunks |-> chunks]
           /\ IF found # {}
              THEN \E existing \in found :
                      /\ knowledge_documents' =
                            (knowledge_documents \ {existing}) \cup
                            {[existing EXCEPT !.last_scraped_at = now]}
                      /\ knowledge_chunks' = knowledge_chunks
                      /\ resp' = [document_id |-> DocumentIdText(existing.id),
                                  is_new |-> FALSE]
              ELSE \E outcome \in EmbeddingOutcomes(chunks) :
                      /\ knowledge_documents' = knowledge_documents \cup
                            {DocumentRow(doc_id, title, content, "web_scrape", now)}
                      /\ knowledge_chunks' = knowledge_chunks \cup
                            StoredChunks(doc_id, chunks, has_vector, outcome)
                      /\ resp' = [document_id |-> DocumentIdText(doc_id),
                                  is_new |-> TRUE]
           /\ UNCHANGED <<plates, suppliers, importVars, accountVars, cardVars,
                          newsVars>>

\* store_knowledge of knowledge_loader.py: a duplicate is left untouched
StoreKnowledge ==
    \E title \in Titles : \E content \in Contents : \E has_vector \in BOOLEAN :
        LET hash_val == ContentHash(content)
            found == ExistingDocuments(knowledge_documents, hash_val)
            chunks == ChunkText(content, 0)
            doc_id == NewDocumentId(knowledge_documents)
        IN /\ op' = "store_knowledge"
           /\ req' = [title |-> title, content |-> content]
           /\ locals' = [hash_val |-> hash_val, chunks |-> chunks]
           /\ IF found # {}
              THEN \E existing \in found :
                      /\ UNCHANGED knowledgeVars
                      /\ resp' = [document_id |-> DocumentIdText(existing.id),
                                  is_new |-> FALSE]
              ELSE \E outcome \in EmbeddingOutcomes(chunks) :
                      /\ knowledge_documents' = knowledge_documents \cup
                            {DocumentRow(doc_id, title, content, "manual", NULL)}
                      /\ knowledge_chunks' = knowledge_chunks \cup
                            StoredChunks(doc_id, chunks, has_vector, outcome)
                      /\ resp' = [document_id |-> DocumentIdText(doc_id),
                                  is_new |-> TRUE]
           /\ UNCHANGED <<plates, suppliers, importVars, accountVars, cardVars,
                          newsVars>>

InitKnowledgeSpec ==
    /\ plates = Catalog
    /\ suppliers = SupplierNames
    /\ InitRequest
    /\ InitStores

NextKnowledge ==
    \/ StoreDocument
    \/ StoreKnowledge

KnowledgeSpec == InitKnowledgeSpec /\ [][NextKnowledge]_vars

-----------------------------------------------------------------------------
(* C29: de-duplication by content hash *)

\* no two rows of knowledge_documents carry the same content_hash
OneDocumentPerHash ==
    \A d1, d2 \in knowledge_documents :
        d1.content_hash = d2.content_hash => d1 = d2

\* the documents that already carry the hash of the content stored in this
\* step
AlreadyStored ==
    { d \in knowledge_documents : d.content_hash = ContentHash(req'.content) }

\* the ids of the rows of a documents table
DocumentIds(documents) == { d.id : d \in documents }

\* C29: calls of store_document and store_knowledge run one after the other
\* leave at most one knowledge document per content hash, and a call whose
\* content hash is already stored returns the id of the stored document with
\* is_new = False and adds no document row and no chunk row
C29_ContentHashDeduplication ==
    /\ []OneDocumentPerHash
    /\ [][ (/\ op' \in {"store_document", "store_knowledge"}
            /\ AlreadyStored # {})
           => /\ resp'.is_new = FALSE
              /\ \E d \in AlreadyStored : resp'.document_id = DocumentIdText(d.id)
              /\ DocumentIds(knowledge_documents') = DocumentIds(knowledge_documents)
              /\ Cardinality(knowledge_documents') = Cardinality(knowledge_documents)
              /\ knowledge_chunks' = knowledge_chunks ]_vars

\* C29 witness: content stored by store_knowledge under one title has just
\* been stored again by store_document under another title, which returned
\* the first document and touched nothing but its last_scraped_at
C29_Witness ==
    /\ op = "store_document"
    /\ resp.is_new = FALSE
    /\ Cardinality(knowledge_documents) = Cardinality(Contents)
    /\ \E d \in knowledge_documents :
          /\ d.content_hash = locals.hash_val
          /\ d.source_type = "manual"
          /\ d.title # req.title
          /\ d.last_scraped_at = now
          /\ resp.document_id = DocumentIdText(d.id)
          /\ \E c \in knowledge_chunks : c.document_id = d.id

====
